---- MODULE Spec2Model ----
(***************************************************************************)
(* EncryptedDAO: the confidential-voting contract (src/unnamed/part_000,   *)
(* lines 535-823) together with the part of the FHE co-processor it drives *)
(* through the FHE library: ciphertext handles, their plaintexts and the   *)
(* access-control list (ACL) of decryption rights; and one browser        *)
(* session of the client hook useEncryptedDAO                              *)
(* (src/frontend/hooks/useEncryptedDAO.tsx) with its decryption and vote   *)
(* requests.                                                               *)
(*                                                                         *)
(* A handle is modelled by the operation that produced it.  The library    *)
(* computes a result handle as a hash of the operator and its operand      *)
(* handles, so equal operations on equal operands give equal handles and   *)
(* nothing else does; the only handles with fresh randomness are the       *)
(* encrypted inputs a client builds.  The plaintext of a handle is what    *)
(* the co-processor would compute for it (Decrypt).                        *)
(***************************************************************************)
EXTENDS Integers, Sequences, FiniteSets, TLC

VARIABLES
    members,          \* mapping(address => Member)
    memberCounter,    \* uint256 memberCounter
    proposals,        \* mapping(uint256 => Proposal)
    proposalCounter,  \* uint256 proposalCounter
    hasVoted,         \* mapping(uint256 => mapping(address => bool))
    now,              \* block.timestamp
    txCount,          \* number of transactions sent to the contract so far
    acl,              \* co-processor ACL: persisted <<handle, account>> pairs
    inputs,           \* encrypted inputs built by clients: <<user, plaintext>>
    voteLog,          \* calldata of the accepted castVote calls (VoteCast log)
    lastCall,         \* the last transaction and how it ended
    wallet,           \* the session's wallet: active chain, account, signer
    hook,             \* the React state and refs of useEncryptedDAO
    decryptRun,       \* the decryptVotes request in flight, if any
    voteRun,          \* the castVote request in flight, if any
    sessionCall,      \* the last step of the session and how it ended
    addresses,        \* the address map the build generated
    writeRuns         \* the createProposal / joinDAO / addMember requests in flight

(* What the decryption and vote requests leave alone. *)
pageVars == <<addresses, writeRuns>>

sessionVars == <<wallet, hook, decryptRun, voteRun, sessionCall, pageVars>>

vars == <<members, memberCounter, proposals, proposalCounter, hasVoted, now,
          txCount, acl, inputs, voteLog, lastCall, sessionVars>>

contractVars == <<members, memberCounter, proposals, proposalCounter, hasVoted,
                  acl, inputs, voteLog>>

----------------------------------------------------------------------------
(* Bounds of the model *)

MaxProposals == 2
MaxTx == 6
MaxTimedTx == 3
MaxSlack == 1
MaxSessionTx == 3
MaxSwitches == 1
MaxWriteRuns == 2
MaxRaceTx == 4

(* Program constants *)

MIN_VOTING_DURATION == 86400
GenesisTime == 1

Deployer == "deployer"
This == "this"
Addr == {Deployer, "alice", "bob"}
ProposalIds == 1 .. MaxProposals
BallotValues == {0, 1, 2}
Descriptions == {"", "d"}
Durations == {MIN_VOTING_DURATION - 1, MIN_VOTING_DURATION, MIN_VOTING_DURATION + 1}
ShortDurations == {MIN_VOTING_DURATION - 1, MIN_VOTING_DURATION}
TickSteps == {1, MIN_VOTING_DURATION}
TimeHorizon == GenesisTime + MIN_VOTING_DURATION + MaxSlack

----------------------------------------------------------------------------
(* The FHE library and the co-processor *)

ZeroHandle == <<"zero", 0>>

FHE_asEuint32(v) == <<"trivial", v>>

FHE_input(i) == <<"input", i>>

FHE_eq(a, b) == <<"eq", a, b>>

FHE_select(c, a, b) == <<"select", c, a, b>>

FHE_add(a, b) == <<"add", a, b>>

(* The plaintext the co-processor holds for a handle, given the plaintexts  *)
(* of the encrypted inputs.  An euint32 sum wraps at 2^32; no counter of   *)
(* the model comes near it (a counter is at most the number of addresses), *)
(* so the sum is written without the reduction.                            *)
RECURSIVE Eval(_, _)
Eval(h, val) ==
    CASE h[1] = "zero" -> 0
      [] h[1] = "trivial" -> h[2]
      [] h[1] = "input" -> val[h[2]]
      [] h[1] = "eq" -> IF Eval(h[2], val) = Eval(h[3], val) THEN 1 ELSE 0
      [] h[1] = "select" -> IF Eval(h[2], val) = 1 THEN Eval(h[3], val) ELSE Eval(h[4], val)
      [] h[1] = "add" -> Eval(h[2], val) + Eval(h[3], val)

InputValues == [i \in 1 .. Len(inputs) |-> inputs[i][2]]

Decrypt(h) == Eval(h, InputValues)

(* ACL.isAllowed: a persisted pair, or an allowance of the running         *)
(* transaction (the executor allows the calling contract, transiently, on  *)
(* every handle it returns to it).                                         *)
isAllowed(h, account, transient) == h \in transient \/ <<h, account>> \in acl

(* InputVerifier: an input proof binds the ciphertext to the user that     *)
(* built it and to this contract; nothing binds it to a proposal.          *)
ProofValid(ins, e, sender) == e \in 1 .. Len(ins) /\ ins[e][1] = sender

----------------------------------------------------------------------------
(* The session: what the hook holds before any call *)

(* The chains of the address map the build generates: the local node,      *)
(* where the modelled contract is deployed, and Sepolia.                   *)
HardhatChainId == 31337
SepoliaChainId == 11155111
ChainIds == {HardhatChainId, SepoliaChainId}

(* The deployment address of each chain. *)
EncryptedDAOAddresses(chainId) ==
    IF chainId = HardhatChainId THEN This ELSE "sepoliaDAO"

(* ethers.ZeroAddress *)
ZeroAddress == "0x0"

(* An address that is undefined. *)
NoAddress == ""

(* The chainId the hook is given while no wallet is connected: undefined,  *)
(* which line 45 does not tell from 0.                                     *)
NoChainId == 0

(* A chain the build never generates an entry for. *)
MainnetChainId == 1

(* The entries the generator writes for a chain: the address of the        *)
(* deployment file, which may be the zero address or missing.              *)
Entry(chainId, address) == [address |-> address, chainId |-> chainId]

EntryWithoutAddress(chainId) == [chainId |-> chainId]

Entries(chainId) ==
    {Entry(chainId, EncryptedDAOAddresses(chainId)), Entry(chainId, ZeroAddress),
     EntryWithoutAddress(chainId)}

(* The address maps the generator can write: an entry for each chain it    *)
(* found a deployment file for.                                            *)
Builds ==
    UNION {{f \in [S -> UNION {Entries(c) : c \in S}] : \A c \in S : f[c] \in Entries(c)} :
              S \in SUBSET ChainIds}

(* The address map of a build that found both deployments. *)
GeneratedAddresses == [c \in ChainIds |-> Entry(c, EncryptedDAOAddresses(c))]

(* What getEncryptedDAOByChainId returns (the abi is left out), and the    *)
(* TypeError it throws.                                                    *)
EncryptedDAOInfo(address, chainId) ==
    [address |-> address, chainId |-> chainId, threw |-> FALSE]

LookupThrew == [address |-> NoAddress, chainId |-> NoChainId, threw |-> TRUE]

(* getEncryptedDAOByChainId, lines 42-62: the operator in applied to an    *)
(* entry that is undefined throws.                                         *)
getEncryptedDAOByChainId(map, chainId) ==
    IF chainId = NoChainId THEN EncryptedDAOInfo(NoAddress, NoChainId)
    ELSE IF chainId \notin DOMAIN map THEN LookupThrew
    ELSE IF "address" \notin DOMAIN map[chainId] \/ map[chainId].address = ZeroAddress
         THEN EncryptedDAOInfo(NoAddress, chainId)
    ELSE EncryptedDAOInfo(map[chainId].address, map[chainId].chainId)

(* isDeployed, lines 119-132: undefined, false or true. *)
isDeployed(encryptedDAO) ==
    IF encryptedDAO.chainId = NoChainId THEN "undefined"
    ELSE IF encryptedDAO.address = NoAddress \/ encryptedDAO.address = ZeroAddress
         THEN "false"
    ELSE "true"

(* What the wallet hook hands to useEncryptedDAO: the active chain and the *)
(* signer of the active account.  A signer is an object: every change of   *)
(* chain or account makes a new one (id).                                  *)
Signer(chainId, account, id) == [chainId |-> chainId, account |-> account, id |-> id]

(* An undefined handle, clear value or proposal id. *)
Undefined == <<"undefined", 0>>

NoClearValue == [handle |-> Undefined, clear |-> 0]

InitialHook ==
    [proposals |-> <<>>,
     selectedProposalId |-> 0,
     yesVotesHandle |-> Undefined,
     noVotesHandle |-> Undefined,
     clearYesVotes |-> NoClearValue,
     clearNoVotes |-> NoClearValue,
     isDecrypting |-> FALSE,
     isVoting |-> FALSE,
     message |-> "",
     decryptVotesProposalId |-> 0,
     isCreatingProposal |-> FALSE,
     isAddingMember |-> FALSE,
     createProposalIsCreating |-> FALSE,
     addMemberIsAdding |-> FALSE]

NoDecryptRun ==
    [pc |-> "idle", thisChainId |-> 0, thisDAOAddress |-> "", thisYesHandle |-> Undefined,
     thisNoHandle |-> Undefined, thisEthersSigner |-> Signer(0, "", 0),
     selectedProposalId |-> 0]

NoVoteRun ==
    [pc |-> "idle", thisChainId |-> 0, thisDAOAddress |-> "",
     thisEthersSigner |-> Signer(0, "", 0), proposalId |-> 0, voteValue |-> 0,
     mined |-> FALSE]

SessionCall(op, result) == [op |-> op, result |-> result]

(* The last step was neither a call a hook function ignored nor the        *)
(* return of a call whose result the properties read.                      *)
NoSessionCall == SessionCall("", "")

(* The value of the session's variables while no session is open. *)
NotMounted == <<>>

----------------------------------------------------------------------------
(* The contract *)

NoMember == [isMember |-> FALSE, joinTime |-> 0]

NoProposal ==
    [id |-> 0, proposer |-> "", description |-> "", startTime |-> 0, endTime |-> 0,
     executed |-> FALSE, encryptedYesVotes |-> ZeroHandle,
     encryptedNoVotes |-> ZeroHandle, totalVoters |-> 0]

(* A transaction: the function called, msg.sender, the arguments (those    *)
(* the function does not take are left at their defaults) and how it ended *)
(* ("ok", or the reason of the revert).                                    *)
NoArgs ==
    [proposalId |-> 0, e |-> 0, v |-> 0, newMember |-> "", description |-> "",
     votingDuration |-> 0]

Call(op, sender, args, status) ==
    [op |-> op, sender |-> sender, args |-> args, status |-> status]

constructor ==
    /\ members = [a \in Addr |->
                    IF a = Deployer THEN [isMember |-> TRUE, joinTime |-> GenesisTime]
                                    ELSE NoMember]
    /\ memberCounter = 1
    /\ proposals = [p \in ProposalIds |-> NoProposal]
    /\ proposalCounter = 0
    /\ hasVoted = [p \in ProposalIds |-> [a \in Addr |-> FALSE]]
    /\ now = GenesisTime
    /\ txCount = 0
    /\ acl = {}
    /\ inputs = <<>>
    /\ voteLog = [p \in ProposalIds |-> [a \in Addr |-> 0]]
    /\ lastCall = Call("constructor", Deployer, NoArgs, "ok")

(* The contract right after its deployment; no session is open. *)
Init ==
    /\ constructor
    /\ wallet = NotMounted
    /\ hook = NotMounted
    /\ decryptRun = NotMounted
    /\ voteRun = NotMounted
    /\ sessionCall = NotMounted
    /\ addresses = NotMounted
    /\ writeRuns = NotMounted

(* The contract right after its deployment, and a session the deployer has *)
(* just opened on the local node: the hook is mounted with the initial     *)
(* values of its state.                                                    *)
SessionInit ==
    /\ constructor
    /\ wallet = Signer(HardhatChainId, Deployer, 0)
    /\ hook = InitialHook
    /\ decryptRun = NoDecryptRun
    /\ voteRun = NoVoteRun
    /\ sessionCall = SessionCall("mount", "ok")
    /\ addresses = GeneratedAddresses
    /\ writeRuns = <<>>

onlyMember(sender) == members[sender].isMember

(* Mutant: the modifier rejects the id of the newest proposal. *)
validProposal_BelowCounter(proposalId) == proposalId > 0 /\ proposalId < proposalCounter

validProposal(proposalId) == proposalId > 0 /\ proposalId <= proposalCounter

(* A transaction that reverts leaves the whole state of the contract and   *)
(* of the ACL as it was: only lastCall tells it happened.                  *)
Reverted(op, sender, args, status) ==
    /\ lastCall' = Call(op, sender, args, status)
    /\ UNCHANGED contractVars

(* A transaction is mined at the current block time.  The state after a    *)
(* reverted transaction differs from the state before it in lastCall only, *)
(* and no operation reads lastCall, so the search goes on from the state   *)
(* before it and not a second time from the state after it.                *)
Mined ==
    /\ lastCall.status = "ok"
    /\ txCount' = txCount + 1
    /\ UNCHANGED now

(* Mutant: registering a member writes the whole mapping anew. *)
MembersWith_OnlyNewMember(newMember) ==
    [a \in Addr |-> IF a = newMember THEN [isMember |-> TRUE, joinTime |-> now]
                                     ELSE NoMember]

(* joinDAO lines 613-616, addMember lines 625-628 *)
MembersWith(newMember) ==
    [members EXCEPT ![newMember] = [isMember |-> TRUE, joinTime |-> now]]

(* Mutant: joinDAO without require(!members[msg.sender].isMember). *)
JoinDAOStatus_NoCheck(sender) == "ok"

JoinDAOStatus(sender) ==
    IF members[sender].isMember THEN "Already a member" ELSE "ok"

JoinDAO(sender) ==
    /\ Mined
    /\ LET status == JoinDAOStatus(sender) IN
       IF status = "ok"
       THEN /\ members' = MembersWith(sender)
            /\ memberCounter' = memberCounter + 1
            /\ lastCall' = Call("joinDAO", sender, NoArgs, "ok")
            /\ UNCHANGED <<proposals, proposalCounter, hasVoted, acl, inputs, voteLog>>
       ELSE Reverted("joinDAO", sender, NoArgs, status)

(* Mutant: addMember without the onlyMember modifier. *)
AddMemberStatus_NoMemberCheck(sender, newMember) ==
    IF members[newMember].isMember THEN "Already a member" ELSE "ok"

AddMemberStatus(sender, newMember) ==
    IF ~onlyMember(sender) THEN "Not a DAO member"
    ELSE IF members[newMember].isMember THEN "Already a member"
    ELSE "ok"

AddMember(sender, newMember) ==
    /\ Mined
    /\ LET status == AddMemberStatus(sender, newMember)
           args == [NoArgs EXCEPT !.newMember = newMember]
       IN
       IF status = "ok"
       THEN /\ members' = MembersWith(newMember)
            /\ memberCounter' = memberCounter + 1
            /\ lastCall' = Call("addMember", sender, args, "ok")
            /\ UNCHANGED <<proposals, proposalCounter, hasVoted, acl, inputs, voteLog>>
       ELSE Reverted("addMember", sender, args, status)

(* Mutant: the voting duration must exceed the minimum. *)
CreateProposalStatus_StrictDuration(sender, description, votingDuration) ==
    IF ~onlyMember(sender) THEN "Not a DAO member"
    ELSE IF ~(votingDuration > MIN_VOTING_DURATION) THEN "Voting duration too short"
    ELSE IF ~(description # "") THEN "Description cannot be empty"
    ELSE "ok"

(* Mutant: createProposal without the require on the voting duration. *)
CreateProposalStatus_NoDurationCheck(sender, description, votingDuration) ==
    IF ~onlyMember(sender) THEN "Not a DAO member"
    ELSE IF ~(description # "") THEN "Description cannot be empty"
    ELSE "ok"

CreateProposalStatus(sender, description, votingDuration) ==
    IF ~onlyMember(sender) THEN "Not a DAO member"
    ELSE IF ~(votingDuration >= MIN_VOTING_DURATION) THEN "Voting duration too short"
    ELSE IF ~(description # "") THEN "Description cannot be empty"
    ELSE "ok"

(* Mutant: the id is taken before the counter is incremented. *)
NewProposal_IdBeforeIncrement(proposalId, sender, description, votingDuration) ==
    [id |-> proposalId - 1, proposer |-> sender, description |-> description,
     startTime |-> now, endTime |-> now + votingDuration, executed |-> FALSE,
     encryptedYesVotes |-> FHE_asEuint32(0), encryptedNoVotes |-> FHE_asEuint32(0),
     totalVoters |-> 0]

NewProposal(proposalId, sender, description, votingDuration) ==
    [id |-> proposalId, proposer |-> sender, description |-> description,
     startTime |-> now, endTime |-> now + votingDuration, executed |-> FALSE,
     encryptedYesVotes |-> FHE_asEuint32(0), encryptedNoVotes |-> FHE_asEuint32(0),
     totalVoters |-> 0]

CreateProposal(sender, description, votingDuration) ==
    /\ Mined
    /\ LET status == CreateProposalStatus(sender, description, votingDuration)
           proposalId == proposalCounter + 1
           args == [NoArgs EXCEPT !.description = description,
                                  !.votingDuration = votingDuration]
       IN
       IF status = "ok"
       THEN /\ proposalCounter < MaxProposals
            /\ proposalCounter' = proposalId
            /\ proposals' = [proposals EXCEPT ![proposalId] =
                                NewProposal(proposalId, sender, description, votingDuration)]
            /\ lastCall' = Call("createProposal", sender, args, "ok")
            /\ UNCHANGED <<members, memberCounter, hasVoted, acl, inputs, voteLog>>
       ELSE Reverted("createProposal", sender, args, status)


(* castVote, lines 681-688: the ballot as an internal ciphertext, and its  *)
(* encrypted contribution to each counter.                                 *)
FHE_fromExternal(e) == FHE_input(e)

(* Mutant: the yes test compares the ballot with 0. *)
isYes_ComparesZero(vote) ==
    FHE_select(FHE_eq(vote, FHE_asEuint32(0)), FHE_asEuint32(1), FHE_asEuint32(0))

isYes(vote) ==
    FHE_select(FHE_eq(vote, FHE_asEuint32(1)), FHE_asEuint32(1), FHE_asEuint32(0))

(* Mutant: every ballot that is not a yes counts as a no. *)
isNo_NotYes(vote) ==
    FHE_select(FHE_eq(vote, FHE_asEuint32(1)), FHE_asEuint32(0), FHE_asEuint32(1))

isNo(vote) ==
    FHE_select(FHE_eq(vote, FHE_asEuint32(0)), FHE_asEuint32(1), FHE_asEuint32(0))

(* Mutant: the yes counter restarts from zero at every vote. *)
NewYesVotes_Restarts(proposal, vote) == FHE_add(FHE_asEuint32(0), isYes(vote))

NewYesVotes(proposal, vote) == FHE_add(proposal.encryptedYesVotes, isYes(vote))

(* Mutant: the no counter adds the yes contribution. *)
NewNoVotes_AddsYes(proposal, vote) == FHE_add(proposal.encryptedNoVotes, isYes(vote))

NewNoVotes(proposal, vote) == FHE_add(proposal.encryptedNoVotes, isNo(vote))

(* The handles the executor has returned to the contract by line 688: the  *)
(* contract may use them in this transaction.                              *)
CastVoteTransient(vote) ==
    {vote, FHE_asEuint32(1), FHE_asEuint32(0),
     FHE_eq(vote, FHE_asEuint32(1)), FHE_eq(vote, FHE_asEuint32(0)),
     isYes(vote), isNo(vote)}

(* The encrypted input of a castVote call: one a client built before       *)
(* (e <= Len(inputs)), or one the sender builds for this call with         *)
(* plaintext v (e = Len(inputs) + 1).                                      *)
InputsWith(sender, e, v) ==
    IF e = Len(inputs) + 1 THEN Append(inputs, <<sender, v>>) ELSE inputs

(* Mutant: castVote without require(!hasVoted[proposalId][msg.sender]). *)
CastVoteStatus_NoVotedCheck(sender, proposalId, e, ins) ==
    IF ~validProposal(proposalId) THEN "Invalid proposal ID"
    ELSE IF ~onlyMember(sender) THEN "Not a DAO member"
    ELSE IF ~(now >= proposals[proposalId].startTime) THEN "Voting not started"
    ELSE IF ~(now <= proposals[proposalId].endTime) THEN "Voting ended"
    ELSE IF proposals[proposalId].executed THEN "Proposal already executed"
    ELSE IF ~ProofValid(ins, e, sender) THEN "Invalid proof"
    ELSE "ok"

CastVoteStatus(sender, proposalId, e, ins) ==
    IF ~validProposal(proposalId) THEN "Invalid proposal ID"
    ELSE IF ~onlyMember(sender) THEN "Not a DAO member"
    ELSE IF ~(now >= proposals[proposalId].startTime) THEN "Voting not started"
    ELSE IF ~(now <= proposals[proposalId].endTime) THEN "Voting ended"
    ELSE IF hasVoted[proposalId][sender] THEN "Already voted"
    ELSE IF proposals[proposalId].executed THEN "Proposal already executed"
    ELSE IF ~ProofValid(ins, e, sender) THEN "Invalid proof"
    ELSE IF ~(/\ isAllowed(proposals[proposalId].encryptedYesVotes, This,
                           CastVoteTransient(FHE_fromExternal(e)))
              /\ isAllowed(proposals[proposalId].encryptedNoVotes, This,
                           CastVoteTransient(FHE_fromExternal(e))))
         THEN "ACLNotAllowed"
    ELSE "ok"

(* Mutant: the vote also lets the deployer decrypt the new counters. *)
CastVoteAllow_AlsoDeployer(yes, no, sender) ==
    {<<yes, This>>, <<yes, sender>>, <<no, This>>, <<no, sender>>,
     <<yes, Deployer>>, <<no, Deployer>>}

(* Mutant: the voter is not allowed on the new no counter. *)
CastVoteAllow_NoVoterOnNo(yes, no, sender) ==
    {<<yes, This>>, <<yes, sender>>, <<no, This>>}

(* castVote, lines 708-712 *)
CastVoteAllow(yes, no, sender) ==
    {<<yes, This>>, <<yes, sender>>, <<no, This>>, <<no, sender>>}

CastVote(sender, proposalId, e, v) ==
    /\ Mined
    /\ LET ins == InputsWith(sender, e, v)
           status == CastVoteStatus(sender, proposalId, e, ins)
           args == [NoArgs EXCEPT !.proposalId = proposalId, !.e = e, !.v = v]
       IN
       IF status = "ok"
       THEN LET proposal == proposals[proposalId]
                vote == FHE_fromExternal(e)
                yes == NewYesVotes(proposal, vote)
                no == NewNoVotes(proposal, vote)
            IN
            /\ proposals' = [proposals EXCEPT ![proposalId] =
                                [proposal EXCEPT !.encryptedYesVotes = yes,
                                                 !.encryptedNoVotes = no,
                                                 !.totalVoters = @ + 1]]
            /\ hasVoted' = [hasVoted EXCEPT ![proposalId][sender] = TRUE]
            /\ acl' = acl \cup CastVoteAllow(yes, no, sender)
            /\ inputs' = ins
            /\ voteLog' = [voteLog EXCEPT ![proposalId][sender] = e]
            /\ lastCall' = Call("castVote", sender, args, "ok")
            /\ UNCHANGED <<members, memberCounter, proposalCounter>>
       ELSE Reverted("castVote", sender, args, status)

(* Mutant: grantDecryptionAccess without the onlyMember modifier. *)
GrantDecryptionAccessStatus_NoMemberCheck(sender, proposalId) ==
    IF ~validProposal(proposalId) THEN "Invalid proposal ID"
    ELSE IF ~(/\ isAllowed(proposals[proposalId].encryptedYesVotes, This, {})
              /\ isAllowed(proposals[proposalId].encryptedNoVotes, This, {}))
         THEN "SenderNotAllowed"
    ELSE "ok"

(* grantDecryptionAccess: ACL.allow lets a sender grant only on a handle   *)
(* it is itself allowed on, and no handle is transiently allowed here.     *)
GrantDecryptionAccessStatus(sender, proposalId) ==
    IF ~validProposal(proposalId) THEN "Invalid proposal ID"
    ELSE IF ~onlyMember(sender) THEN "Not a DAO member"
    ELSE IF ~(/\ isAllowed(proposals[proposalId].encryptedYesVotes, This, {})
              /\ isAllowed(proposals[proposalId].encryptedNoVotes, This, {}))
         THEN "SenderNotAllowed"
    ELSE "ok"

(* Mutant: the caller is allowed on the yes counter only. *)
GrantDecryptionAccessAllow_YesOnly(proposal, sender) ==
    {<<proposal.encryptedYesVotes, sender>>}

GrantDecryptionAccessAllow(proposal, sender) ==
    {<<proposal.encryptedYesVotes, sender>>, <<proposal.encryptedNoVotes, sender>>}

(* Mutant: granting decryption access closes the proposal. *)
GrantDecryptionAccess_MarksExecuted(sender, proposalId) ==
    /\ Mined
    /\ LET status == GrantDecryptionAccessStatus(sender, proposalId)
           args == [NoArgs EXCEPT !.proposalId = proposalId]
       IN
       IF status = "ok"
       THEN /\ acl' = acl \cup GrantDecryptionAccessAllow(proposals[proposalId], sender)
            /\ proposals' = [proposals EXCEPT ![proposalId].executed = TRUE]
            /\ lastCall' = Call("grantDecryptionAccess", sender, args, "ok")
            /\ UNCHANGED <<members, memberCounter, proposalCounter,
                           hasVoted, inputs, voteLog>>
       ELSE Reverted("grantDecryptionAccess", sender, args, status)

GrantDecryptionAccess(sender, proposalId) ==
    /\ Mined
    /\ LET status == GrantDecryptionAccessStatus(sender, proposalId)
           args == [NoArgs EXCEPT !.proposalId = proposalId]
       IN
       IF status = "ok"
       THEN /\ acl' = acl \cup GrantDecryptionAccessAllow(proposals[proposalId], sender)
            /\ lastCall' = Call("grantDecryptionAccess", sender, args, "ok")
            /\ UNCHANGED <<members, memberCounter, proposals, proposalCounter,
                           hasVoted, inputs, voteLog>>
       ELSE Reverted("grantDecryptionAccess", sender, args, status)

(* Time passes between transactions.  The model visits genesis, the end of *)
(* the shortest voting period that starts at genesis, and the MaxSlack     *)
(* seconds after it.                                                       *)
Tick(d) ==
    /\ lastCall.status = "ok"
    /\ now + d >= GenesisTime + MIN_VOTING_DURATION
    /\ now + d <= TimeHorizon
    /\ now' = now + d
    /\ UNCHANGED <<contractVars, txCount, lastCall>>

(* The read accessors.  Those under validProposal revert like it. *)
isMember(addr) == members[addr].isMember

getProposalCount == proposalCounter

getMemberCount == memberCounter

(* How a call under validProposal alone ends. *)
getProposalStatus(proposalId) ==
    IF ~validProposal(proposalId) THEN "Invalid proposal ID" ELSE "ok"

(* The values getProposal returns when it does not revert. *)
getProposal(proposalId) ==
    LET proposal == proposals[proposalId]
    IN  <<proposal.id, proposal.proposer, proposal.description, proposal.startTime,
          proposal.endTime, proposal.executed, proposal.totalVoters>>

getEncryptedVotes(proposalId) ==
    LET proposal == proposals[proposalId]
    IN  <<proposal.encryptedYesVotes, proposal.encryptedNoVotes>>

isVotingEndedStatus(proposalId) ==
    IF ~validProposal(proposalId) THEN "Invalid proposal ID" ELSE "ok"

(* Mutant: voting has ended at endTime already. *)
isVotingEnded_AtEndTime(proposalId) == now >= proposals[proposalId].endTime

isVotingEnded(proposalId) == now > proposals[proposalId].endTime

checkHasVoted(proposalId, voter) == hasVoted[proposalId][voter]

(* The transactions the model sends, with arguments from the given sets;   *)
(* the proposal ids include the two nearest invalid ones.                  *)
SomeJoinDAO == \E sender \in Addr : JoinDAO(sender)

SomeAddMember == \E sender, newMember \in Addr : AddMember(sender, newMember)

SomeCreateProposal(durations) ==
    \E sender \in Addr, description \in Descriptions, votingDuration \in durations :
        CreateProposal(sender, description, votingDuration)

SomeCastVote ==
    \E sender \in Addr, proposalId \in 0 .. proposalCounter + 1,
       e \in 1 .. Len(inputs) + 1, v \in BallotValues :
        /\ e <= Len(inputs) => v = inputs[e][2]
        /\ CastVote(sender, proposalId, e, v)

SomeGrantDecryptionAccess ==
    \E sender \in Addr, proposalId \in 0 .. proposalCounter + 1 :
        GrantDecryptionAccess(sender, proposalId)

(* Runs of at most MaxTx transactions, all in the block of the deployment. *)
Next ==
    \/ txCount < MaxTx /\ SomeJoinDAO /\ UNCHANGED sessionVars
    \/ txCount < MaxTx /\ SomeAddMember /\ UNCHANGED sessionVars
    \/ txCount < MaxTx /\ SomeCreateProposal(ShortDurations) /\ UNCHANGED sessionVars
    \/ txCount < MaxTx /\ SomeCastVote /\ UNCHANGED sessionVars
    \/ txCount < MaxTx /\ SomeGrantDecryptionAccess /\ UNCHANGED sessionVars

Spec == Init /\ [][Next]_vars

(* Runs of at most MaxTimedTx transactions with time passing between them. *)
TimedNext ==
    \/ txCount < MaxTimedTx /\ SomeJoinDAO /\ UNCHANGED sessionVars
    \/ txCount < MaxTimedTx /\ SomeAddMember /\ UNCHANGED sessionVars
    \/ txCount < MaxTimedTx /\ SomeCreateProposal(Durations) /\ UNCHANGED sessionVars
    \/ txCount < MaxTimedTx /\ SomeCastVote /\ UNCHANGED sessionVars
    \/ txCount < MaxTimedTx /\ SomeGrantDecryptionAccess /\ UNCHANGED sessionVars
    \/ (\E d \in TickSteps : Tick(d)) /\ UNCHANGED sessionVars

TimedSpec == Init /\ [][TimedNext]_vars

----------------------------------------------------------------------------
(* The session: wallet and hook *)

(* getEncryptedDAOByChainId(chainId).address, read at render through       *)
(* encryptedDAO / encryptedDAORef.                                         *)
encryptedDAOAddress == getEncryptedDAOByChainId(addresses, wallet.chainId).address

sameChain(chainId) == chainId = wallet.chainId

sameSigner(ethersSigner) == ethersSigner = wallet

(* isStale of a request that took the snapshot run when it started. *)
isStale(run) ==
    \/ run.thisDAOAddress # encryptedDAOAddress
    \/ ~sameChain(run.thisChainId)
    \/ ~sameSigner(run.thisEthersSigner)

(* React rebuilds the decryptVotes callback when one of its dependencies   *)
(* has changed; selectedProposalId is not one of them, so the callback     *)
(* keeps the value it saw when it was last rebuilt.                        *)
RenderDecryptVotes(prev, next, walletChanged) ==
    IF \/ walletChanged
       \/ next.yesVotesHandle # prev.yesVotesHandle
       \/ next.noVotesHandle # prev.noVotesHandle
       \/ next.clearYesVotes # prev.clearYesVotes
       \/ next.clearNoVotes # prev.clearNoVotes
    THEN [next EXCEPT !.decryptVotesProposalId = next.selectedProposalId]
    ELSE next

(* Likewise createProposal and addMember: their dependencies (lines 474,   *)
(* 556) are the address, the signer and the refresh callbacks, not the     *)
(* flags isCreatingProposal and isAddingMember their guards read, so each  *)
(* keeps the flag it saw when the wallet last changed.                     *)
Render(prev, next, walletChanged) ==
    IF walletChanged
    THEN [RenderDecryptVotes(prev, next, walletChanged) EXCEPT
             !.createProposalIsCreating = next.isCreatingProposal,
             !.addMemberIsAdding = next.isAddingMember]
    ELSE RenderDecryptVotes(prev, next, walletChanged)

(* The user switches the wallet to another account or another chain. *)
SwitchAccount(account) ==
    /\ wallet.id < MaxSwitches
    /\ account # wallet.account
    /\ wallet' = Signer(wallet.chainId, account, wallet.id + 1)
    /\ hook' = Render(hook, hook, TRUE)
    /\ sessionCall' = NoSessionCall
    /\ UNCHANGED <<pageVars, contractVars, now, txCount, lastCall, decryptRun, voteRun>>

SwitchChain(chainId) ==
    /\ wallet.id < MaxSwitches
    /\ chainId # wallet.chainId
    /\ wallet' = Signer(chainId, wallet.account, wallet.id + 1)
    /\ hook' = Render(hook, hook, TRUE)
    /\ sessionCall' = NoSessionCall
    /\ UNCHANGED <<pageVars, contractVars, now, txCount, lastCall, decryptRun, voteRun>>

(* A call of the hook reaches the modelled contract when the wallet is on  *)
(* the chain it is deployed on.                                            *)
OnModelledChain == wallet.chainId = HardhatChainId

(* refreshProposals: the list read from the contract, or the failure of a  *)
(* read.                                                                   *)
RefreshedProposals(h, ok) ==
    IF ok
    THEN [h EXCEPT !.proposals = [i \in 1 .. getProposalCount |-> getProposal(i)]]
    ELSE [h EXCEPT !.message = "Failed to load proposals: "]

(* The component calls refreshProposals, and its reads succeed. *)
RefreshProposals ==
    /\ OnModelledChain
    /\ hook' = RefreshedProposals(hook, TRUE)
    /\ sessionCall' = NoSessionCall
    /\ UNCHANGED <<pageVars, contractVars, now, txCount, lastCall, wallet, decryptRun, voteRun>>

(* loadVoteHandles(proposalId): getEncryptedVotes reverts on an invalid id *)
(* and a read may fail.                                                    *)
LoadedVoteHandles(h, proposalId, ok) ==
    IF ok /\ validProposal(proposalId)
    THEN Render(h,
                [h EXCEPT !.yesVotesHandle = getEncryptedVotes(proposalId)[1],
                          !.noVotesHandle = getEncryptedVotes(proposalId)[2],
                          !.selectedProposalId = proposalId,
                          !.clearYesVotes = NoClearValue,
                          !.clearNoVotes = NoClearValue,
                          !.message = "Vote handles loaded."],
                FALSE)
    ELSE [h EXCEPT !.message = "Failed to load vote handles: "]

(* The component calls loadVoteHandles, and its read succeeds. *)
LoadVoteHandles(proposalId) ==
    /\ OnModelledChain
    /\ hook' = LoadedVoteHandles(hook, proposalId, TRUE)
    /\ sessionCall' = NoSessionCall
    /\ UNCHANGED <<pageVars, contractVars, now, txCount, lastCall, wallet, decryptRun, voteRun>>

----------------------------------------------------------------------------
(* The session: a decryption request *)

(* Mutant: run() ends without its finally block. *)
DecryptFinally_KeepsFlag(h, message) == [h EXCEPT !.message = message]

(* The request ends: the message of its outcome, and the finally block. *)
DecryptFinally(h, message) == [h EXCEPT !.isDecrypting = FALSE, !.message = message]

(* Mutant: decryptVotes without the test of isDecryptingRef. *)
DecryptVotesGuard_NoInFlightCheck ==
    \/ hook.yesVotesHandle = Undefined
    \/ hook.noVotesHandle = Undefined
    \/ hook.decryptVotesProposalId = 0

(* decryptVotes lines 227-237 *)
DecryptVotesGuard ==
    \/ hook.isDecrypting
    \/ hook.yesVotesHandle = Undefined
    \/ hook.noVotesHandle = Undefined
    \/ hook.decryptVotesProposalId = 0

(* Mutant: decryptVotes without the test of line 239. *)
AlreadyDecrypted_Unchecked == FALSE

(* decryptVotes line 239 *)
AlreadyDecrypted ==
    /\ hook.yesVotesHandle = hook.clearYesVotes.handle
    /\ hook.noVotesHandle = hook.clearNoVotes.handle

(* decryptVotes(): the guards, the snapshot, and run() up to its first     *)
(* await, the submission of grantDecryptionAccess.                         *)
DecryptVotes ==
    /\ OnModelledChain
    /\ UNCHANGED <<pageVars, contractVars, now, txCount, lastCall, wallet, voteRun>>
    /\ IF DecryptVotesGuard
       THEN /\ sessionCall' = SessionCall("decryptVotes", "ignored")
            /\ UNCHANGED <<hook, decryptRun>>
       ELSE IF AlreadyDecrypted
       THEN /\ sessionCall' = SessionCall("decryptVotes", "already decrypted")
            /\ UNCHANGED <<hook, decryptRun>>
       ELSE /\ decryptRun' = [pc |-> "grantDecryptionAccess",
                              thisChainId |-> wallet.chainId,
                              thisDAOAddress |-> encryptedDAOAddress,
                              thisYesHandle |-> hook.yesVotesHandle,
                              thisNoHandle |-> hook.noVotesHandle,
                              thisEthersSigner |-> wallet,
                              selectedProposalId |-> hook.decryptVotesProposalId]
            /\ hook' = [hook EXCEPT !.isDecrypting = TRUE,
                                    !.message = "Authorizing and starting decryption..."]
            /\ sessionCall' = NoSessionCall

(* Mutant: the failure of the authorization ends the request. *)
AfterAuthFailure_Ends(run) == [run EXCEPT !.pc = "idle"]

(* catch (authErr): the failure is logged and run() goes on to loadOrSign. *)
AfterAuthFailure(run) == [run EXCEPT !.pc = "loadOrSign"]

(* await writeContract.grantDecryptionAccess(selectedProposalId): the      *)
(* wallet signs and sends the transaction, which needs the signer's        *)
(* account to be the active one and the gas estimate not to revert; or the *)
(* call throws, and run() goes on to loadOrSign.                           *)
DecryptAuthSent(ok) ==
    /\ decryptRun.pc = "grantDecryptionAccess"
    /\ UNCHANGED <<pageVars, contractVars, now, txCount, lastCall, wallet, voteRun>>
    /\ IF ok
       THEN /\ sameSigner(decryptRun.thisEthersSigner)
            /\ GrantDecryptionAccessStatus(decryptRun.thisEthersSigner.account,
                                           decryptRun.selectedProposalId) = "ok"
            /\ decryptRun' = [decryptRun EXCEPT !.pc = "authTx.wait"]
            /\ hook' = [hook EXCEPT !.message = "Authorizing decryption... tx: "]
            /\ sessionCall' = NoSessionCall
       ELSE /\ decryptRun' = AfterAuthFailure(decryptRun)
            /\ UNCHANGED hook
            /\ sessionCall' = NoSessionCall

(* await authTx.wait(): the transaction is mined, or it is not (it reverts *)
(* or is dropped) and the call throws; either way loadOrSign is next.      *)
AuthMined(ok, maxTx) ==
    /\ decryptRun.pc = "authTx.wait"
    /\ UNCHANGED <<pageVars, wallet, voteRun, hook>>
    /\ IF ok
       THEN /\ txCount < maxTx
            /\ GrantDecryptionAccessStatus(decryptRun.thisEthersSigner.account,
                                           decryptRun.selectedProposalId) = "ok"
            /\ GrantDecryptionAccess(decryptRun.thisEthersSigner.account,
                                     decryptRun.selectedProposalId)
            /\ decryptRun' = [decryptRun EXCEPT !.pc = "loadOrSign"]
            /\ sessionCall' = NoSessionCall
       ELSE /\ decryptRun' = AfterAuthFailure(decryptRun)
            /\ sessionCall' = NoSessionCall
            /\ UNCHANGED <<contractVars, now, txCount, lastCall>>

DecryptAuthMined(ok) == AuthMined(ok, MaxSessionTx)

(* Mutant: run() without the test of a null signature. *)
SignatureMissing_Unchecked(result) == FALSE

(* if (!sig), line 285 *)
SignatureMissing(result) == result = "null"

(* await FhevmDecryptionSignature.loadOrSign(...): a signature, null, or   *)
(* an exception; then the first staleness check, and userDecrypt.          *)
DecryptSigned(result) ==
    /\ decryptRun.pc = "loadOrSign"
    /\ sessionCall' = SessionCall("loadOrSign", result)
    /\ UNCHANGED <<pageVars, contractVars, now, txCount, lastCall, wallet, voteRun>>
    /\ IF result = "throws"
       THEN /\ hook' = DecryptFinally(hook, "Decryption failed: ")
            /\ decryptRun' = NoDecryptRun
       ELSE IF SignatureMissing(result)
       THEN /\ hook' = DecryptFinally(hook, "Unable to build FHEVM decryption signature")
            /\ decryptRun' = NoDecryptRun
       ELSE IF isStale(decryptRun)
       THEN /\ hook' = DecryptFinally(hook, "Ignore FHEVM decryption")
            /\ decryptRun' = NoDecryptRun
       ELSE /\ hook' = [hook EXCEPT !.message = "Calling FHEVM userDecrypt..."]
            /\ decryptRun' = [decryptRun EXCEPT !.pc = "userDecrypt"]

(* The co-processor decrypts a handle for a user who signed for a contract *)
(* when the ACL allows both the user and the contract on it.               *)
UserDecryptAllowed(handle, user, contractAddress) ==
    isAllowed(handle, user, {}) /\ isAllowed(handle, contractAddress, {})

(* Mutant: the result of userDecrypt is written without the second         *)
(* staleness check.                                                        *)
DecryptResolvedStale_Unchecked(run) == FALSE

(* decryptVotes line 313 *)
DecryptResolvedStale(run) == isStale(run)

(* await instance.userDecrypt(...): the plaintexts, or an exception; then  *)
(* the second staleness check, and the clear tally.                        *)
DecryptResolved(ok) ==
    /\ decryptRun.pc = "userDecrypt"
    /\ UNCHANGED <<pageVars, contractVars, now, txCount, lastCall, wallet, voteRun>>
    /\ decryptRun' = NoDecryptRun
    /\ IF ~ok
       THEN /\ hook' = DecryptFinally(hook, "Decryption failed: ")
            /\ sessionCall' = SessionCall("userDecrypt", "failed")
       ELSE /\ UserDecryptAllowed(decryptRun.thisYesHandle,
                                  decryptRun.thisEthersSigner.account,
                                  decryptRun.thisDAOAddress)
            /\ UserDecryptAllowed(decryptRun.thisNoHandle,
                                  decryptRun.thisEthersSigner.account,
                                  decryptRun.thisDAOAddress)
            /\ IF DecryptResolvedStale(decryptRun)
               THEN /\ hook' = DecryptFinally(hook, "Ignore FHEVM decryption")
                    /\ sessionCall' = SessionCall("userDecrypt", "stale")
               ELSE /\ hook' =
                          Render(hook,
                                 DecryptFinally(
                                    [hook EXCEPT
                                        !.clearYesVotes =
                                            [handle |-> decryptRun.thisYesHandle,
                                             clear |-> Decrypt(decryptRun.thisYesHandle)],
                                        !.clearNoVotes =
                                            [handle |-> decryptRun.thisNoHandle,
                                             clear |-> Decrypt(decryptRun.thisNoHandle)]],
                                    "Results: "),
                                 FALSE)
                    /\ sessionCall' = SessionCall("userDecrypt", "resolved")

----------------------------------------------------------------------------
(* The session: a vote request *)

(* Mutant: the end of a request drops the clear tally. *)
VoteFinally_DropsTally(h, message) ==
    [h EXCEPT !.isVoting = FALSE, !.message = message,
              !.clearYesVotes = NoClearValue, !.clearNoVotes = NoClearValue]

(* The request ends: the message of its outcome, and the finally block. *)
VoteFinally(h, message) == [h EXCEPT !.isVoting = FALSE, !.message = message]

(* Mutant: castVote without the test of voteValue. *)
CastVoteGuard_NoValueCheck(voteValue) == hook.isVoting

(* Mutant: castVote without the test of isVotingRef. *)
CastVoteGuard_NoInFlightCheck(voteValue) == voteValue # 0 /\ voteValue # 1

(* castVote line 353 *)
CastVoteGuard(voteValue) == hook.isVoting \/ (voteValue # 0 /\ voteValue # 1)

(* castVote(proposalId, voteValue): the guard, the snapshot, and run() up  *)
(* to its first await, the timer.                                          *)
castVote(proposalId, voteValue) ==
    /\ OnModelledChain
    /\ UNCHANGED <<pageVars, contractVars, now, txCount, lastCall, wallet, decryptRun>>
    /\ IF CastVoteGuard(voteValue)
       THEN /\ sessionCall' = SessionCall("castVote", "ignored")
            /\ UNCHANGED <<hook, voteRun>>
       ELSE /\ voteRun' = [pc |-> "setTimeout",
                           thisChainId |-> wallet.chainId,
                           thisDAOAddress |-> encryptedDAOAddress,
                           thisEthersSigner |-> wallet,
                           proposalId |-> proposalId,
                           voteValue |-> voteValue,
                           mined |-> FALSE]
            /\ hook' = [hook EXCEPT !.isVoting = TRUE, !.message = "Encrypting vote..."]
            /\ sessionCall' = NoSessionCall

(* The timer fires: createEncryptedInput, add32 and the call of encrypt(). *)
VoteTimer ==
    /\ voteRun.pc = "setTimeout"
    /\ voteRun' = [voteRun EXCEPT !.pc = "encrypt"]
    /\ sessionCall' = NoSessionCall
    /\ UNCHANGED <<pageVars, contractVars, now, txCount, lastCall, wallet, hook, decryptRun>>

(* await input.encrypt(): the ciphertext and its proof, or an exception;   *)
(* then the staleness check, and the submission of castVote.               *)
VoteEncrypted(ok) ==
    /\ voteRun.pc = "encrypt"
    /\ UNCHANGED <<pageVars, contractVars, now, txCount, lastCall, wallet, decryptRun>>
    /\ IF ~ok
       THEN /\ hook' = VoteFinally(hook, "Vote failed: ")
            /\ voteRun' = NoVoteRun
            /\ sessionCall' = SessionCall("encrypt", "failed")
       ELSE IF isStale(voteRun)
       THEN /\ hook' = VoteFinally(hook, "Ignore vote")
            /\ voteRun' = NoVoteRun
            /\ sessionCall' = SessionCall("encrypt", "stale")
       ELSE /\ hook' = [hook EXCEPT !.message = "Submitting vote..."]
            /\ voteRun' = [voteRun EXCEPT !.pc = "castVote"]
            /\ sessionCall' = NoSessionCall

(* await contract.castVote(...): the node accepts the transaction when its *)
(* gas estimate does not revert, or the call throws.                       *)
VoteSent(ok) ==
    /\ voteRun.pc = "castVote"
    /\ UNCHANGED <<pageVars, contractVars, now, txCount, lastCall, wallet, decryptRun>>
    /\ IF ok
       THEN /\ sameChain(voteRun.thisChainId)
            /\ CastVoteStatus(voteRun.thisEthersSigner.account, voteRun.proposalId,
                              Len(inputs) + 1,
                              InputsWith(voteRun.thisEthersSigner.account,
                                         Len(inputs) + 1, voteRun.voteValue)) = "ok"
            /\ hook' = [hook EXCEPT !.message = "Waiting for transaction: "]
            /\ voteRun' = [voteRun EXCEPT !.pc = "tx.wait"]
            /\ sessionCall' = NoSessionCall
       ELSE /\ hook' = VoteFinally(hook, "Vote failed: ")
            /\ voteRun' = NoVoteRun
            /\ sessionCall' = SessionCall("contract.castVote", "failed")

(* The transaction is mined. *)
VoteMined ==
    /\ voteRun.pc = "tx.wait"
    /\ ~voteRun.mined
    /\ txCount < MaxSessionTx
    /\ CastVote(voteRun.thisEthersSigner.account, voteRun.proposalId,
                Len(inputs) + 1, voteRun.voteValue)
    /\ lastCall'.status = "ok"
    /\ voteRun' = [voteRun EXCEPT !.mined = TRUE]
    /\ sessionCall' = NoSessionCall
    /\ UNCHANGED <<pageVars, wallet, hook, decryptRun>>

(* await tx.wait(): the receipt of the mined transaction, or an exception; *)
(* then the staleness check, and the call of refreshProposals.             *)
VoteConfirmed(ok) ==
    /\ voteRun.pc = "tx.wait"
    /\ UNCHANGED <<pageVars, contractVars, now, txCount, lastCall, wallet, decryptRun>>
    /\ IF ~ok
       THEN /\ hook' = VoteFinally(hook, "Vote failed: ")
            /\ voteRun' = NoVoteRun
            /\ sessionCall' = SessionCall("tx.wait", "failed")
       ELSE /\ voteRun.mined
            /\ IF isStale(voteRun)
               THEN /\ hook' = VoteFinally(hook, "Ignore vote")
                    /\ voteRun' = NoVoteRun
                    /\ sessionCall' = SessionCall("tx.wait", "stale")
               ELSE /\ hook' = [hook EXCEPT !.message = "Vote submitted! Status: "]
                    /\ voteRun' = [voteRun EXCEPT !.pc = "refreshProposals"]
                    /\ sessionCall' = NoSessionCall

(* await refreshProposals(): it catches the failure of a read itself. *)
VoteRefreshed(ok) ==
    /\ voteRun.pc = "refreshProposals"
    /\ hook' = RefreshedProposals(hook, ok)
    /\ voteRun' = [voteRun EXCEPT !.pc = "loadVoteHandles"]
    /\ sessionCall' = NoSessionCall
    /\ UNCHANGED <<pageVars, contractVars, now, txCount, lastCall, wallet, decryptRun>>

(* await loadVoteHandles(proposalId), which catches the failure of a read  *)
(* itself; then the clear tally is dropped and the request ends.           *)
VoteLoaded(ok) ==
    /\ voteRun.pc = "loadVoteHandles"
    /\ LET loaded == LoadedVoteHandles(hook, voteRun.proposalId, ok)
       IN hook' = Render(loaded,
                         VoteFinally([loaded EXCEPT !.clearYesVotes = NoClearValue,
                                                    !.clearNoVotes = NoClearValue],
                                     "Vote submitted. Please decrypt results again."),
                         FALSE)
    /\ voteRun' = NoVoteRun
    /\ sessionCall' = SessionCall("loadVoteHandles", "completed")
    /\ UNCHANGED <<pageVars, contractVars, now, txCount, lastCall, wallet, decryptRun>>

----------------------------------------------------------------------------
(* The session and the chain together *)

(* The proposals the members create from other clients while the session   *)
(* runs; a createProposal that reverts changes nothing the session reads.  *)
OtherTransaction ==
    /\ txCount < MaxSessionTx
    /\ SomeCreateProposal(ShortDurations)
    /\ lastCall'.status = "ok"
    /\ sessionCall' = NoSessionCall
    /\ UNCHANGED <<pageVars, wallet, hook, decryptRun, voteRun>>

Outcomes == {TRUE, FALSE}

(* The accounts of the wallet. *)
WalletAccounts == {Deployer, "alice"}

(* The ballots the component asks for: a yes, and a value castVote refuses. *)
SessionBallots == {1, 2}

(* The component offers its buttons for the proposals of the list. *)
DisplayedIds == 1 .. Len(hook.proposals)

SignatureResults == {"sig", "null", "throws"}

SessionNext ==
    \/ OtherTransaction
    \/ \E account \in WalletAccounts : SwitchAccount(account)
    \/ \E chainId \in ChainIds : SwitchChain(chainId)
    \/ RefreshProposals
    \/ \E proposalId \in DisplayedIds : LoadVoteHandles(proposalId)
    \/ DecryptVotes
    \/ \E ok \in Outcomes : DecryptAuthSent(ok)
    \/ \E ok \in Outcomes : DecryptAuthMined(ok)
    \/ \E result \in SignatureResults : DecryptSigned(result)
    \/ \E ok \in Outcomes : DecryptResolved(ok)
    \/ \E proposalId \in DisplayedIds, voteValue \in SessionBallots :
          castVote(proposalId, voteValue)
    \/ VoteTimer
    \/ \E ok \in Outcomes : VoteEncrypted(ok)
    \/ \E ok \in Outcomes : VoteSent(ok)
    \/ VoteMined
    \/ \E ok \in Outcomes : VoteConfirmed(ok)
    \/ \E ok \in Outcomes : VoteRefreshed(ok)
    \/ \E ok \in Outcomes : VoteLoaded(ok)

SessionSpec == SessionInit /\ [][SessionNext]_vars

(* Every awaited call settles: the timer fires, and each transaction,      *)
(* signature request, co-processor call and read returns or throws.        *)
Settles ==
    /\ WF_vars(\E ok \in Outcomes : DecryptAuthSent(ok))
    /\ WF_vars(\E ok \in Outcomes : DecryptAuthMined(ok))
    /\ WF_vars(\E result \in SignatureResults : DecryptSigned(result))
    /\ WF_vars(\E ok \in Outcomes : DecryptResolved(ok))
    /\ WF_vars(VoteTimer)
    /\ WF_vars(\E ok \in Outcomes : VoteEncrypted(ok))
    /\ WF_vars(\E ok \in Outcomes : VoteSent(ok))
    /\ WF_vars(\E ok \in Outcomes : VoteConfirmed(ok))
    /\ WF_vars(\E ok \in Outcomes : VoteRefreshed(ok))
    /\ WF_vars(\E ok \in Outcomes : VoteLoaded(ok))

FairSessionSpec == SessionSpec /\ Settles

----------------------------------------------------------------------------
(* The session: the ballots of the vote buttons *)

(* vote(proposalId, voteYes), lines 514-519 *)
vote(proposalId, voteYes) == castVote(proposalId, IF voteYes THEN 1 ELSE 0)

(* The vote requests of a session whose wallet stays as it is: the two     *)
(* vote buttons, and direct calls of castVote.                             *)
BallotNext ==
    \/ OtherTransaction
    \/ RefreshProposals
    \/ \E proposalId \in DisplayedIds, voteYes \in BOOLEAN : vote(proposalId, voteYes)
    \/ \E proposalId \in DisplayedIds, voteValue \in SessionBallots :
          castVote(proposalId, voteValue)
    \/ VoteTimer
    \/ \E ok \in Outcomes : VoteEncrypted(ok)
    \/ \E ok \in Outcomes : VoteSent(ok)
    \/ VoteMined
    \/ \E ok \in Outcomes : VoteConfirmed(ok)
    \/ \E ok \in Outcomes : VoteRefreshed(ok)
    \/ \E ok \in Outcomes : VoteLoaded(ok)

BallotSpec == SessionInit /\ [][BallotNext]_vars

----------------------------------------------------------------------------
(* The session: a decryption request while other members vote *)

(* What another member does from another client while the session runs:    *)
(* alice joins, the deployer's proposals appear, alice votes yes.          *)
OtherMemberTransaction ==
    /\ txCount < MaxRaceTx
    /\ \/ JoinDAO("alice")
       \/ CreateProposal(Deployer, "d", MIN_VOTING_DURATION)
       \/ \E proposalId \in 1 .. proposalCounter :
             CastVote("alice", proposalId, Len(inputs) + 1, 1)
    /\ lastCall'.status = "ok"
    /\ sessionCall' = NoSessionCall
    /\ UNCHANGED <<pageVars, wallet, hook, decryptRun, voteRun>>

GrantRaceNext ==
    \/ OtherMemberTransaction
    \/ RefreshProposals
    \/ \E proposalId \in DisplayedIds : LoadVoteHandles(proposalId)
    \/ DecryptVotes
    \/ \E ok \in Outcomes : DecryptAuthSent(ok)
    \/ \E ok \in Outcomes : AuthMined(ok, MaxRaceTx)
    \/ \E result \in SignatureResults : DecryptSigned(result)
    \/ \E ok \in Outcomes : DecryptResolved(ok)

GrantRaceSpec == SessionInit /\ [][GrantRaceNext]_vars

----------------------------------------------------------------------------
(* The session: the deployment lookup *)

(* The chain ids the wallet hook may report. *)
LookupChainIds == ChainIds \cup {NoChainId, MainnetChainId}

(* A page is opened with a build of the address map and no wallet          *)
(* connected.                                                              *)
LookupInit ==
    /\ constructor
    /\ wallet = Signer(NoChainId, NoAddress, 0)
    /\ hook = InitialHook
    /\ decryptRun = NoDecryptRun
    /\ voteRun = NoVoteRun
    /\ sessionCall = SessionCall("mount", "ok")
    /\ addresses \in Builds
    /\ writeRuns = <<>>

(* The wallet hook reports a chain and an account, and the hook renders:   *)
(* the useMemo of encryptedDAO (lines 106-117) calls the lookup and hints  *)
(* at a missing deployment, and the useMemo of isDeployed reads its        *)
(* result.  An exception thrown while rendering takes the page down.       *)
ConnectChain(chainId, account) ==
    /\ wallet.id < MaxSwitches + 1
    /\ sessionCall.result # "throws"
    /\ wallet' = Signer(chainId, account, wallet.id + 1)
    /\ LET c == getEncryptedDAOByChainId(addresses, chainId)
       IN IF c.threw
          THEN /\ sessionCall' = SessionCall("isDeployed", "throws")
               /\ UNCHANGED hook
          ELSE /\ sessionCall' = SessionCall("isDeployed", isDeployed(c))
               /\ hook' = IF c.chainId # NoChainId /\ c.address \in {NoAddress, ZeroAddress}
                          THEN [hook EXCEPT !.message = "EncryptedDAO deployment not found for chainId="]
                          ELSE hook
    /\ UNCHANGED <<contractVars, now, txCount, lastCall, decryptRun, voteRun, addresses,
                   writeRuns>>

LookupNext == \E chainId \in LookupChainIds, account \in WalletAccounts :
                 ConnectChain(chainId, account)

LookupSpec == LookupInit /\ [][LookupNext]_vars

----------------------------------------------------------------------------
(* The session: createProposal, joinDAO and addMember *)

(* The closure of a run(): the function called, the contract call it       *)
(* awaits, the signer and the arguments it was called with.                *)
WriteRun(op, newMember, description, votingDuration) ==
    [op |-> op, pc |-> op, thisEthersSigner |-> wallet, newMember |-> newMember,
     description |-> description, votingDuration |-> votingDuration, mined |-> FALSE]

(* The flag each function sets and its finally block clears. *)
WriteFlag(op) == IF op = "createProposal" THEN "isCreatingProposal" ELSE "isAddingMember"

WithoutRun(i) == SubSeq(writeRuns, 1, i - 1) \o SubSeq(writeRuns, i + 1, Len(writeRuns))

(* The function is called: its guard, the flag, and run() up to the await  *)
(* of the contract call.                                                   *)
StartWrite(guard, run, message) ==
    /\ OnModelledChain
    /\ Len(writeRuns) < MaxWriteRuns
    /\ UNCHANGED <<contractVars, now, txCount, lastCall, wallet, decryptRun, voteRun,
                   addresses>>
    /\ IF guard
       THEN /\ sessionCall' = SessionCall(run.op, "ignored")
            /\ UNCHANGED <<hook, writeRuns>>
       ELSE /\ hook' = [hook EXCEPT ![WriteFlag(run.op)] = TRUE, !.message = message]
            /\ writeRuns' = Append(writeRuns, run)
            /\ sessionCall' = NoSessionCall

(* createProposal line 443: isCreatingProposal as the callback saw it. *)
CreateProposalGuard ==
    encryptedDAOAddress = NoAddress \/ hook.createProposalIsCreating

createProposal(description, votingDuration) ==
    StartWrite(CreateProposalGuard,
               WriteRun("createProposal", NoAddress, description, votingDuration),
               "Creating proposal...")

(* joinDAO line 479: isAddingMember is a dependency of the callback. *)
JoinDAOGuard == encryptedDAOAddress = NoAddress \/ hook.isAddingMember

joinDAO == StartWrite(JoinDAOGuard, WriteRun("joinDAO", NoAddress, "", 0), "Joining DAO...")

(* addMember line 524: isAddingMember as the callback saw it. *)
AddMemberGuard == encryptedDAOAddress = NoAddress \/ hook.addMemberIsAdding

addMember(newMemberAddress) ==
    StartWrite(AddMemberGuard, WriteRun("addMember", newMemberAddress, "", 0),
               "Adding member...")

(* How the contract would answer the call of the run. *)
WriteStatus(run) ==
    IF run.op = "createProposal"
    THEN CreateProposalStatus(run.thisEthersSigner.account, run.description,
                              run.votingDuration)
    ELSE IF run.op = "joinDAO" THEN JoinDAOStatus(run.thisEthersSigner.account)
    ELSE AddMemberStatus(run.thisEthersSigner.account, run.newMember)

(* catch and finally of run(). *)
WriteFailed(i) ==
    /\ hook' = [hook EXCEPT ![WriteFlag(writeRuns[i].op)] = FALSE, !.message = "failed: "]
    /\ writeRuns' = WithoutRun(i)
    /\ sessionCall' = SessionCall(writeRuns[i].op, "failed")

(* await contract.createProposal / joinDAO / addMember: the wallet signs   *)
(* and sends the transaction, which needs the signer's account to be the   *)
(* active one and the gas estimate not to revert; or the call throws.      *)
WriteSent(i, ok) ==
    /\ i \in DOMAIN writeRuns
    /\ writeRuns[i].pc = writeRuns[i].op
    /\ UNCHANGED <<contractVars, now, txCount, lastCall, wallet, decryptRun, voteRun,
                   addresses>>
    /\ IF ok
       THEN /\ sameSigner(writeRuns[i].thisEthersSigner)
            /\ WriteStatus(writeRuns[i]) = "ok"
            /\ hook' = [hook EXCEPT !.message = "Waiting for transaction: "]
            /\ writeRuns' = [writeRuns EXCEPT ![i].pc = "tx.wait"]
            /\ sessionCall' = NoSessionCall
       ELSE WriteFailed(i)

(* The transaction is mined; one that reverts changes nothing and makes    *)
(* tx.wait() throw.                                                        *)
WriteMined(i) ==
    /\ i \in DOMAIN writeRuns
    /\ writeRuns[i].pc = "tx.wait"
    /\ ~writeRuns[i].mined
    /\ txCount < MaxSessionTx
    /\ LET run == writeRuns[i] IN
       IF run.op = "createProposal"
       THEN CreateProposal(run.thisEthersSigner.account, run.description, run.votingDuration)
       ELSE IF run.op = "joinDAO" THEN JoinDAO(run.thisEthersSigner.account)
       ELSE AddMember(run.thisEthersSigner.account, run.newMember)
    /\ lastCall'.status = "ok"
    /\ writeRuns' = [writeRuns EXCEPT ![i].mined = TRUE]
    /\ sessionCall' = NoSessionCall
    /\ UNCHANGED <<wallet, hook, decryptRun, voteRun, addresses>>

(* await tx.wait(): the receipt of the mined transaction, or an exception  *)
(* (the transaction reverted or was dropped).                              *)
WriteConfirmed(i, ok) ==
    /\ i \in DOMAIN writeRuns
    /\ writeRuns[i].pc = "tx.wait"
    /\ UNCHANGED <<contractVars, now, txCount, lastCall, wallet, decryptRun, voteRun,
                   addresses>>
    /\ IF ok
       THEN /\ writeRuns[i].mined
            /\ hook' = [hook EXCEPT !.message = "Status: "]
            /\ writeRuns' = [writeRuns EXCEPT ![i].pc = "refreshProposals"]
            /\ sessionCall' = NoSessionCall
       ELSE WriteFailed(i)

(* await refreshProposals() (after refreshMemberStatus(), whose state the  *)
(* model leaves out); both catch the failure of a read themselves.  Then   *)
(* the finally block.                                                      *)
WriteRefreshed(i, ok) ==
    /\ i \in DOMAIN writeRuns
    /\ writeRuns[i].pc = "refreshProposals"
    /\ hook' = [RefreshedProposals(hook, ok) EXCEPT ![WriteFlag(writeRuns[i].op)] = FALSE]
    /\ writeRuns' = WithoutRun(i)
    /\ sessionCall' = SessionCall(writeRuns[i].op, "completed")
    /\ UNCHANGED <<contractVars, now, txCount, lastCall, wallet, decryptRun, voteRun,
                   addresses>>

(* What the component and the other callers of the hook pass. *)
NewMembers == {"alice", "bob"}

WriteRunIds == 1 .. MaxWriteRuns

WriteNext ==
    \/ \E account \in WalletAccounts : SwitchAccount(account)
    \/ \E description \in Descriptions, votingDuration \in ShortDurations :
          createProposal(description, votingDuration)
    \/ joinDAO
    \/ \E newMemberAddress \in NewMembers : addMember(newMemberAddress)
    \/ \E i \in WriteRunIds, ok \in Outcomes : WriteSent(i, ok)
    \/ \E i \in WriteRunIds : WriteMined(i)
    \/ \E i \in WriteRunIds, ok \in Outcomes : WriteConfirmed(i, ok)
    \/ \E i \in WriteRunIds, ok \in Outcomes : WriteRefreshed(i, ok)

WriteSpec == SessionInit /\ [][WriteNext]_vars

----------------------------------------------------------------------------
(* What the properties read *)

(* The step is a transaction calling op. *)
CallStep(op) == txCount' = txCount + 1 /\ lastCall'.op = op

(* The step is castVote(proposalId, ...) sent by sender. *)
CastVoteStep(sender, proposalId) ==
    /\ CallStep("castVote")
    /\ lastCall'.sender = sender
    /\ lastCall'.args.proposalId = proposalId

(* The plaintext of the ballot the accepted vote of voter on proposalId carried. *)
Ballot(proposalId, voter) == inputs[voteLog[proposalId][voter]][2]

Voters(proposalId) == {a \in Addr : voteLog[proposalId][a] # 0}

YesPlain(proposalId) == Decrypt(proposals[proposalId].encryptedYesVotes)

NoPlain(proposalId) == Decrypt(proposals[proposalId].encryptedNoVotes)

(* The encrypted contributions a counter is the sum of, oldest first. *)
RECURSIVE Addends(_)
Addends(h) == IF h[1] = "add" THEN Append(Addends(h[2]), h[3]) ELSE <<>>

(* How much the ballot of voter's accepted vote on proposalId weighs in a counter. *)
CountedIn(counter, proposalId, voter) ==
    LET terms == Addends(counter)
        mine == {i \in 1 .. Len(terms) :
                    /\ terms[i][1] = "select"
                    /\ terms[i][2][2] = FHE_input(voteLog[proposalId][voter])}
    IN  IF mine = {} THEN 0
        ELSE IF Cardinality(mine) = 1 THEN Decrypt(terms[CHOOSE i \in mine : TRUE])
        ELSE 2

----------------------------------------------------------------------------
(* C1 as stated: once hasVoted[p][m] is true, every later castVote by m on *)
(* p is rejected with "Already voted" and changes no state.                *)
C1_AlwaysAlreadyVoted ==
    [][\A m \in Addr, p \in ProposalIds :
          (hasVoted[p][m] /\ CastVoteStep(m, p)) =>
             (lastCall'.status = "Already voted" /\ UNCHANGED contractVars)]_vars

(* C1, amended: once hasVoted[p][m] is true, every later castVote by m on  *)
(* p is rejected and changes no state; the reason is "Already voted" while *)
(* the voting period lasts (now <= endTime) and "Voting ended" after it.   *)
C1_VoteAtMostOnce ==
    [][\A m \in Addr, p \in ProposalIds :
          (hasVoted[p][m] /\ CastVoteStep(m, p)) =>
             /\ lastCall'.status =
                   IF now <= proposals[p].endTime THEN "Already voted" ELSE "Voting ended"
             /\ UNCHANGED contractVars]_vars

C1_Witness ==
    /\ lastCall.op = "castVote"
    /\ lastCall.status = "Already voted"
    /\ lastCall.args.proposalId \in ProposalIds
    /\ hasVoted[lastCall.args.proposalId][lastCall.sender]

(* C2: an accepted castVote whose ballot b is 0 or 1 increases the         *)
(* plaintext of exactly one counter by 1 and leaves the other as it was:   *)
(* the yes counter when b = 1, the no counter when b = 0.                  *)
C2_ExactlyOneCounter ==
    [][\A m \in Addr, p \in ProposalIds :
          (CastVoteStep(m, p) /\ lastCall'.status = "ok" /\ lastCall'.args.v \in {0, 1}) =>
             /\ YesPlain(p)' = YesPlain(p) + (IF lastCall'.args.v = 1 THEN 1 ELSE 0)
             /\ NoPlain(p)' = NoPlain(p) + (IF lastCall'.args.v = 0 THEN 1 ELSE 0)]_vars

C2_Witness ==
    /\ lastCall.op = "castVote"
    /\ lastCall.status = "ok"
    /\ lastCall.args.v = 1
    /\ YesPlain(lastCall.args.proposalId) = 2
    /\ NoPlain(lastCall.args.proposalId) = 0

(* C3: a castVote that passes every precondition with a ballot outside     *)
(* {0,1} does not revert and leaves the plaintexts of both counters of the *)
(* proposal as they were.                                                  *)
C3_OutOfRangeExcluded ==
    [][\A m \in Addr, p \in ProposalIds :
          (/\ CastVoteStep(m, p)
           /\ lastCall'.args.v \notin {0, 1}
           /\ p <= proposalCounter
           /\ members[m].isMember
           /\ now >= proposals[p].startTime
           /\ now <= proposals[p].endTime
           /\ ~hasVoted[p][m]
           /\ ~proposals[p].executed
           /\ \/ lastCall'.args.e = Len(inputs) + 1
              \/ inputs[lastCall'.args.e][1] = m) =>
             /\ lastCall'.status = "ok"
             /\ hasVoted'[p][m]
             /\ YesPlain(p)' = YesPlain(p)
             /\ NoPlain(p)' = NoPlain(p)]_vars

C3_Witness ==
    /\ lastCall.op = "castVote"
    /\ lastCall.status = "ok"
    /\ lastCall.args.v = 2
    /\ proposals[lastCall.args.proposalId].totalVoters = 2
    /\ YesPlain(lastCall.args.proposalId) + NoPlain(lastCall.args.proposalId) = 1

(* C4: in every reachable state the plaintext of the yes counter of every  *)
(* proposal is the number of accepted ballots on it with value 1 and the   *)
(* plaintext of its no counter the number of accepted ballots with value 0.*)
C4_TallyIsSplit ==
    \A p \in 1 .. proposalCounter :
        /\ YesPlain(p) = Cardinality({a \in Voters(p) : Ballot(p, a) = 1})
        /\ NoPlain(p) = Cardinality({a \in Voters(p) : Ballot(p, a) = 0})

C4_Witness ==
    \E p \in 1 .. proposalCounter :
        /\ Cardinality(Voters(p)) = 3
        /\ YesPlain(p) = 1
        /\ NoPlain(p) = 2

(* C5 as stated: hasVoted[p][v] implies that the ballot of v is counted in *)
(* exactly one of the two counters of p.                                   *)
C5_CountedExactlyOnce ==
    \A p \in ProposalIds, v \in Addr :
        hasVoted[p][v] =>
            CountedIn(proposals[p].encryptedYesVotes, p, v)
              + CountedIn(proposals[p].encryptedNoVotes, p, v) = 1

(* C5, amended: hasVoted[p][v] implies that the ballot of v is counted in  *)
(* at most one of the two counters of p: in the yes counter alone when it  *)
(* is 1, in the no counter alone when it is 0, and in neither counter when *)
(* it is outside {0,1}.                                                    *)
C5_CountedAtMostOnce ==
    \A p \in ProposalIds, v \in Addr :
        hasVoted[p][v] =>
            /\ voteLog[p][v] # 0
            /\ CountedIn(proposals[p].encryptedYesVotes, p, v) =
                  (IF Ballot(p, v) = 1 THEN 1 ELSE 0)
            /\ CountedIn(proposals[p].encryptedNoVotes, p, v) =
                  (IF Ballot(p, v) = 0 THEN 1 ELSE 0)

C5_Witness ==
    \E p \in ProposalIds, v, w \in Addr :
        /\ hasVoted[p][v] /\ Ballot(p, v) = 2
        /\ hasVoted[p][w] /\ Ballot(p, w) = 1

----------------------------------------------------------------------------
(* Two runs that differ only in the ballots of a and b.  No require of the *)
(* contract reads a plaintext, so the run in which a and b exchange their  *)
(* ballots takes the same steps through the same handles and the same ACL: *)
(* it differs from this one in the plaintexts of the inputs of a and b     *)
(* alone.  When, on every proposal, a and b have both voted, one 1 and the *)
(* other 0, or neither has voted, exchanging their ballots is flipping     *)
(* each of their inputs, and the tallies of the two runs are the same.     *)
ExchangedValues(a, b) ==
    [i \in 1 .. Len(inputs) |->
        IF inputs[i][1] \in {a, b} /\ inputs[i][2] \in {0, 1}
        THEN 1 - inputs[i][2] ELSE inputs[i][2]]

OppositeBallots(a, b) ==
    /\ a # b
    /\ \E p \in ProposalIds : voteLog[p][a] # 0
    /\ \A p \in ProposalIds :
          \/ voteLog[p][a] = 0 /\ voteLog[p][b] = 0
          \/ /\ voteLog[p][a] # 0 /\ voteLog[p][b] # 0
             /\ {Ballot(p, a), Ballot(p, b)} = {0, 1}

(* The handles that are or were the counter h. *)
RECURSIVE CounterHistory(_)
CounterHistory(h) == IF h[1] = "add" THEN {h} \cup CounterHistory(h[2]) ELSE {h}

(* Every handle the contract or an account holds, or a proposal stores. *)
KnownHandles ==
    {pair[1] : pair \in acl}
      \cup {proposals[q].encryptedYesVotes : q \in ProposalIds}
      \cup {proposals[q].encryptedNoVotes : q \in ProposalIds}

(* C6: no member learns the ballot of another from the plaintexts it may   *)
(* decrypt: for an observer m and two runs that differ only in which of    *)
(* two other voters cast the yes and which the no, every handle m holds    *)
(* decryption rights on has the same plaintext in both runs.               *)
C6_BallotSecrecy ==
    \A a, b, m \in Addr :
        (m \notin {a, b} /\ OppositeBallots(a, b)) =>
            \A pair \in acl :
                pair[2] = m => Eval(pair[1], InputValues) = Eval(pair[1], ExchangedValues(a, b))

(* C7: in every reachable state every account that holds decryption rights *)
(* on a counter handle is the contract itself or a registered member.      *)
C7_RightsOnlyMembers ==
    \A pair \in acl : pair[2] = This \/ (pair[2] \in Addr /\ members[pair[2]].isMember)

C7_Witness ==
    /\ \E pair \in acl :
          /\ pair[2] # This
          /\ \A p \in ProposalIds : ~hasVoted[p][pair[2]]
    /\ \E a \in Addr : ~members[a].isMember
    /\ lastCall.op = "grantDecryptionAccess"
    /\ lastCall.status = "Not a DAO member"

(* C8 as stated: after any accepted castVote on p both counter handles of  *)
(* p are new handles, and no account but the voter (and the contract)      *)
(* holds rights on them before it calls grantDecryptionAccess again.       *)
C8_NewHandles ==
    [][\A m \in Addr, p \in ProposalIds :
          (CastVoteStep(m, p) /\ lastCall'.status = "ok") =>
             /\ proposals'[p].encryptedYesVotes \notin KnownHandles
             /\ proposals'[p].encryptedNoVotes \notin KnownHandles
             /\ \A g \in Addr \ {m} :
                   /\ <<proposals'[p].encryptedYesVotes, g>> \notin acl'
                   /\ <<proposals'[p].encryptedNoVotes, g>> \notin acl']_vars

(* C8, amended: after any accepted castVote on p both counter handles of p *)
(* differ from every handle p had before, and the vote gives rights on     *)
(* them to nobody but the voter and the contract.  When the ballot is a    *)
(* newly encrypted input the handles are new and no other account holds    *)
(* rights on them until it calls grantDecryptionAccess again.  When the    *)
(* voter submits again an input it used on another proposal, the handles   *)
(* may be those of that proposal, and an account holds rights on them only *)
(* if it was given them there.                                             *)
C8_NoCarryOver ==
    [][\A m \in Addr, p \in ProposalIds :
          (CastVoteStep(m, p) /\ lastCall'.status = "ok") =>
             LET yes == proposals'[p].encryptedYesVotes
                 no == proposals'[p].encryptedNoVotes
                 Elsewhere(h) ==
                    \E q \in ProposalIds \ {p} :
                        h \in CounterHistory(proposals[q].encryptedYesVotes)
                                \cup CounterHistory(proposals[q].encryptedNoVotes)
             IN
             /\ yes \notin CounterHistory(proposals[p].encryptedYesVotes)
             /\ no \notin CounterHistory(proposals[p].encryptedNoVotes)
             /\ lastCall'.args.e = Len(inputs) + 1 =>
                   (yes \notin KnownHandles /\ no \notin KnownHandles)
             /\ \A g \in Addr \ {m} :
                   /\ <<yes, g>> \in acl' => (<<yes, g>> \in acl /\ Elsewhere(yes))
                   /\ <<no, g>> \in acl' => (<<no, g>> \in acl /\ Elsewhere(no))]_vars

C8_Witness ==
    /\ lastCall.op = "castVote"
    /\ lastCall.status = "ok"
    /\ LET p == lastCall.args.proposalId
           yes == proposals[p].encryptedYesVotes
           no == proposals[p].encryptedNoVotes
       IN  \E g \in Addr \ {lastCall.sender} :
              /\ ~hasVoted[p][g]
              /\ <<yes[2], g>> \in acl /\ <<no[2], g>> \in acl
              /\ <<yes, g>> \notin acl /\ <<no, g>> \notin acl

(* C9: for any member m and any existing proposal p, one without votes     *)
(* included, grantDecryptionAccess(p) called by m succeeds and leaves m    *)
(* with decryption rights on both current counter handles of p; a second   *)
(* call with no vote in between succeeds and leaves the ACL unchanged.     *)
C9_GrantSucceeds ==
    [][\A m \in Addr, p \in ProposalIds :
          (/\ CallStep("grantDecryptionAccess")
           /\ lastCall'.sender = m
           /\ lastCall'.args.proposalId = p
           /\ members[m].isMember
           /\ p <= proposalCounter) =>
             /\ lastCall'.status = "ok"
             /\ proposals' = proposals
             /\ <<proposals[p].encryptedYesVotes, m>> \in acl'
             /\ <<proposals[p].encryptedNoVotes, m>> \in acl'
             /\ (/\ <<proposals[p].encryptedYesVotes, m>> \in acl
                 /\ <<proposals[p].encryptedNoVotes, m>> \in acl) => acl' = acl]_vars

(* C10: right after every accepted castVote by v on p, the contract and v  *)
(* hold decryption rights on both current counter handles of p, with no    *)
(* grantDecryptionAccess call.                                             *)
C10_VoterAndContractAllowed ==
    [][\A v \in Addr, p \in ProposalIds :
          (CastVoteStep(v, p) /\ lastCall'.status = "ok") =>
             /\ <<proposals'[p].encryptedYesVotes, This>> \in acl'
             /\ <<proposals'[p].encryptedYesVotes, v>> \in acl'
             /\ <<proposals'[p].encryptedNoVotes, This>> \in acl'
             /\ <<proposals'[p].encryptedNoVotes, v>> \in acl']_vars

C10_Witness ==
    /\ lastCall.op = "castVote"
    /\ lastCall.status = "ok"
    /\ proposals[lastCall.args.proposalId].totalVoters = 2
    /\ <<proposals[lastCall.args.proposalId].encryptedYesVotes, lastCall.sender>> \in acl
    /\ <<proposals[lastCall.args.proposalId].encryptedNoVotes, lastCall.sender>> \in acl
    /\ <<proposals[lastCall.args.proposalId].encryptedNoVotes, This>> \in acl

(* C11: membership is monotonic: once isMember(a) is true it stays true    *)
(* through every operation; no operation removes a member.                 *)
C11_MembershipMonotonic ==
    [][\A a \in Addr : isMember(a) => isMember(a)']_vars

(* A member who joined has since created a proposal and voted on it. *)
C11_Witness ==
    /\ lastCall.op = "castVote"
    /\ lastCall.status = "ok"
    /\ lastCall.sender # Deployer
    /\ proposals[lastCall.args.proposalId].proposer = lastCall.sender
    /\ isMember(lastCall.sender)
    /\ memberCounter = 3

(* The step makes exactly target a member and counts it. *)
AddsExactly(target) ==
    /\ ~isMember(target)
    /\ isMember(target)'
    /\ \A a \in Addr \ {target} : members'[a] = members[a]
    /\ memberCounter' = memberCounter + 1
    /\ getMemberCount' = getMemberCount + 1

(* C12 as stated: joinDAO by an existing member and addMember targeting an *)
(* existing member are rejected with "Already a member" and change no      *)
(* state; each successful joinDAO / addMember makes exactly the target a   *)
(* member and increases memberCounter by exactly 1.                        *)
C12_AlreadyMemberRejected ==
    [][/\ (CallStep("joinDAO") /\ isMember(lastCall'.sender)) =>
             (lastCall'.status = "Already a member" /\ UNCHANGED contractVars)
       /\ (CallStep("addMember") /\ isMember(lastCall'.args.newMember)) =>
             (lastCall'.status = "Already a member" /\ UNCHANGED contractVars)
       /\ \A a \in Addr :
             (CallStep("joinDAO") /\ lastCall'.status = "ok" /\ lastCall'.sender = a) =>
                AddsExactly(a)
       /\ \A a \in Addr :
             (/\ CallStep("addMember")
              /\ lastCall'.status = "ok"
              /\ lastCall'.args.newMember = a) => AddsExactly(a)]_vars

(* C12, amended: addMember targeting an existing member is rejected with   *)
(* "Already a member" when a member calls it, and with "Not a DAO member"  *)
(* when a non-member calls it (the modifier runs first); the rest as       *)
(* stated.                                                                 *)
C12_AlreadyMemberOrNotMember ==
    [][/\ (CallStep("joinDAO") /\ isMember(lastCall'.sender)) =>
             (lastCall'.status = "Already a member" /\ UNCHANGED contractVars)
       /\ (CallStep("addMember") /\ isMember(lastCall'.args.newMember)) =>
             /\ lastCall'.status =
                   IF isMember(lastCall'.sender) THEN "Already a member"
                                                 ELSE "Not a DAO member"
             /\ UNCHANGED contractVars
       /\ \A a \in Addr :
             (CallStep("joinDAO") /\ lastCall'.status = "ok" /\ lastCall'.sender = a) =>
                AddsExactly(a)
       /\ \A a \in Addr :
             (/\ CallStep("addMember")
              /\ lastCall'.status = "ok"
              /\ lastCall'.args.newMember = a) => AddsExactly(a)]_vars

(* A member's addMember on another member who joined was rejected. *)
C12_Witness ==
    /\ lastCall.op = "addMember"
    /\ lastCall.status = "Already a member"
    /\ lastCall.args.newMember \notin {Deployer, lastCall.sender}
    /\ isMember(lastCall.args.newMember)
    /\ memberCounter = 2

(* The functions under the onlyMember modifier. *)
MemberGated == {"addMember", "createProposal", "castVote", "grantDecryptionAccess"}

(* C13: addMember, createProposal, castVote and grantDecryptionAccess      *)
(* called by a non-member are rejected and leave the whole contract state  *)
(* unchanged; joinDAO is the only operation by which a non-member changes  *)
(* the state.                                                              *)
C13_NonMemberRejected ==
    [][(txCount' = txCount + 1 /\ ~isMember(lastCall'.sender)) =>
          /\ lastCall'.op \in MemberGated =>
                (lastCall'.status # "ok" /\ UNCHANGED contractVars)
          /\ contractVars' # contractVars => lastCall'.op = "joinDAO"]_vars

(* A non-member asked for decryption rights on a proposal with a vote. *)
C13_Witness ==
    /\ lastCall.op = "grantDecryptionAccess"
    /\ lastCall.status = "Not a DAO member"
    /\ ~isMember(lastCall.sender)
    /\ proposals[lastCall.args.proposalId].totalVoters = 1
    /\ memberCounter = 2

C15_SequentialIds ==
    [][/\ \A i \in 1 .. proposalCounter' : proposals'[i].id = i
       /\ proposalCounter' # proposalCounter =>
             (CallStep("createProposal") /\ lastCall'.status = "ok")
       /\ (CallStep("createProposal") /\ lastCall'.status = "ok") =>
             LET k == proposalCounter + 1
                 new == proposals'[k]
             IN  /\ proposalCounter' = k
                 /\ new.id = k
                 /\ new.proposer = lastCall'.sender
                 /\ new.description = lastCall'.args.description
                 /\ new.startTime = now
                 /\ new.endTime = new.startTime + lastCall'.args.votingDuration
                 /\ new.totalVoters = 0
                 /\ Decrypt(new.encryptedYesVotes) = 0
                 /\ Decrypt(new.encryptedNoVotes) = 0
                 /\ \A i \in 1 .. proposalCounter : proposals'[i] = proposals[i]]_vars

(* The second proposal was created later than the first, which has a vote. *)
C15_Witness ==
    /\ lastCall.op = "createProposal"
    /\ lastCall.status = "ok"
    /\ proposalCounter = 2
    /\ proposals[1].id = 1 /\ proposals[2].id = 2
    /\ proposals[1].totalVoters = 1
    /\ proposals[2].startTime > proposals[1].startTime
    /\ proposals[2].totalVoters = 0

(* C16 as stated: every stored proposal satisfies                          *)
(* endTime > startTime + MIN_VOTING_DURATION.                              *)
C16_EndAfterMinimum ==
    \A i \in 1 .. proposalCounter :
        proposals[i].endTime > proposals[i].startTime + MIN_VOTING_DURATION

(* C16, amended: every stored proposal satisfies                           *)
(* endTime >= startTime + MIN_VOTING_DURATION, with equality for a         *)
(* proposal created with exactly the minimum duration.                     *)
C16_EndAtLeastMinimum ==
    \A i \in 1 .. proposalCounter :
        proposals[i].endTime >= proposals[i].startTime + MIN_VOTING_DURATION

(* One proposal lasts exactly the minimum, a later one longer. *)
C16_Witness ==
    /\ proposalCounter = 2
    /\ proposals[1].endTime = proposals[1].startTime + MIN_VOTING_DURATION
    /\ proposals[2].endTime > proposals[2].startTime + MIN_VOTING_DURATION
    /\ proposals[2].startTime > proposals[1].startTime

(* C17: getProposal(id) fails with "Invalid proposal ID" for every id      *)
(* outside [1, proposalCounter], 0 and proposalCounter + 1 included, and   *)
(* succeeds for every id inside, id = proposalCounter included, returning  *)
(* the stored fields of that proposal.                                     *)
C17_GetProposalRange ==
    \A id \in 0 .. MaxProposals + 2 :
        /\ id \in 1 .. proposalCounter <=> getProposalStatus(id) = "ok"
        /\ id \notin 1 .. proposalCounter => getProposalStatus(id) = "Invalid proposal ID"
        /\ id \in 1 .. proposalCounter =>
              getProposal(id) =
                 <<id, proposals[id].proposer, proposals[id].description,
                   proposals[id].startTime, proposals[id].endTime,
                   proposals[id].executed, proposals[id].totalVoters>>

(* Two proposals, the newest with a vote by a member other than its        *)
(* proposer: getProposal succeeds on 1 and 2 and fails on 0 and 3.         *)
C17_Witness ==
    /\ proposalCounter = 2
    /\ getProposalStatus(0) = "Invalid proposal ID"
    /\ getProposalStatus(1) = "ok"
    /\ getProposalStatus(2) = "ok"
    /\ getProposalStatus(3) = "Invalid proposal ID"
    /\ getProposal(2)[1] = 2
    /\ getProposal(2)[2] \notin Voters(2)
    /\ getProposal(2)[7] = 1

(* C18: the voting window is the closed interval [startTime, endTime]: a   *)
(* member's castVote on an existing proposal is accepted at now = endTime  *)
(* (and at now = startTime) and rejected as late at now > endTime, so      *)
(* isVotingEnded(p) is true exactly when castVote on p is rejected for     *)
(* being late.                                                             *)
C18_ClosedVotingWindow ==
    [][\A m \in Addr, p \in ProposalIds :
          (CastVoteStep(m, p) /\ validProposal(p) /\ isMember(m)) =>
             LET first == ~hasVoted[p][m] /\ lastCall'.args.e = Len(inputs) + 1
             IN  /\ isVotingEndedStatus(p) = "ok"
                 /\ lastCall'.status = "Voting ended" <=> isVotingEnded(p)
                 /\ lastCall'.status = "Voting ended" <=> now > proposals[p].endTime
                 /\ lastCall'.status # "Voting not started"
                 /\ (now = proposals[p].endTime /\ first) => lastCall'.status = "ok"
                 /\ (now = proposals[p].startTime /\ first) => lastCall'.status = "ok"]_vars

(* A vote was accepted at now = endTime. *)
C18_Witness ==
    /\ lastCall.op = "castVote"
    /\ lastCall.status = "ok"
    /\ now = proposals[lastCall.args.proposalId].endTime
    /\ ~isVotingEnded(lastCall.args.proposalId)
    /\ checkHasVoted(lastCall.args.proposalId, lastCall.sender)

(* C19: the record of an existing proposal is changed only by an accepted  *)
(* castVote on that proposal, and then only in its two counters and in     *)
(* totalVoters; id, proposer, description, startTime and endTime never     *)
(* change; joinDAO, addMember, grantDecryptionAccess, createProposal,      *)
(* votes on other proposals and every rejected call leave the record, its  *)
(* counter handles included, unchanged; no proposal is deleted and         *)
(* proposalCounter never decreases.                                        *)
C19_ProposalFrame ==
    [][/\ proposalCounter' >= proposalCounter
       /\ \A p \in 1 .. proposalCounter :
             LET old == proposals[p]
                 new == proposals'[p]
                 voteOnP == /\ CallStep("castVote")
                            /\ lastCall'.status = "ok"
                            /\ lastCall'.args.proposalId = p
             IN  /\ new.id = old.id
                 /\ new.proposer = old.proposer
                 /\ new.description = old.description
                 /\ new.startTime = old.startTime
                 /\ new.endTime = old.endTime
                 /\ getProposalStatus(p)' = "ok"
                 /\ new # old =>
                       /\ voteOnP
                       /\ new = [old EXCEPT !.encryptedYesVotes = new.encryptedYesVotes,
                                            !.encryptedNoVotes = new.encryptedNoVotes,
                                            !.totalVoters = new.totalVoters]
                 /\ ~voteOnP =>
                       /\ new = old
                       /\ getEncryptedVotes(p)' = getEncryptedVotes(p)]_vars

(* After a vote on proposal 1, a grant on it and the creation of proposal  *)
(* 2, a vote on proposal 2 was accepted.                                   *)
C19_Witness ==
    /\ lastCall.op = "castVote"
    /\ lastCall.status = "ok"
    /\ lastCall.args.proposalId = 2
    /\ proposals[1].totalVoters = 1
    /\ proposals[2].totalVoters = 1
    /\ \E a \in Addr \ Voters(1) : <<proposals[1].encryptedYesVotes, a>> \in acl
    /\ proposals[1].id = 1
    /\ ~proposals[1].executed

(* C20: member A has created proposal p with a duration of one day, and    *)
(* nobody has voted on it.  castVote on p by a non-member B is rejected    *)
(* with "Not a DAO member"; joinDAO by B makes B a member; B's yes vote on *)
(* p is then accepted and leaves totalVoters = 1 and a yes counter of      *)
(* plaintext 1; grantDecryptionAccess(p) by A then succeeds, and A may     *)
(* decrypt the counters, to yes = 1 and no = 0.                            *)
C20_Scenario ==
    [][\A A \in Addr : \A B \in Addr \ {A}, p \in 1 .. proposalCounter :
          (/\ isMember(A)
           /\ proposals[p].proposer = A
           /\ proposals[p].endTime = proposals[p].startTime + MIN_VOTING_DURATION) =>
             /\ (CastVoteStep(B, p) /\ ~isMember(B)) =>
                   /\ lastCall'.status = "Not a DAO member"
                   /\ UNCHANGED contractVars
             /\ (CallStep("joinDAO") /\ lastCall'.sender = B /\ ~isMember(B)) =>
                   /\ lastCall'.status = "ok"
                   /\ isMember(B)'
             /\ (/\ CastVoteStep(B, p)
                 /\ isMember(B)
                 /\ proposals[p].totalVoters = 0
                 /\ lastCall'.args.e = Len(inputs) + 1
                 /\ lastCall'.args.v = 1) =>
                   /\ lastCall'.status = "ok"
                   /\ checkHasVoted(p, B)'
                   /\ getProposal(p)[7]' = 1
                   /\ YesPlain(p)' = 1
             /\ (/\ CallStep("grantDecryptionAccess")
                 /\ lastCall'.sender = A
                 /\ lastCall'.args.proposalId = p
                 /\ Voters(p) = {B}
                 /\ Ballot(p, B) = 1) =>
                   /\ lastCall'.status = "ok"
                   /\ <<getEncryptedVotes(p)[1], A>> \in acl'
                   /\ <<getEncryptedVotes(p)[2], A>> \in acl'
                   /\ YesPlain(p)' = 1
                   /\ NoPlain(p)' = 0]_vars

(* The end of the scenario: four transactions, the deployer as A. *)
C20_Witness ==
    /\ txCount = 4
    /\ lastCall = Call("grantDecryptionAccess", Deployer,
                       [NoArgs EXCEPT !.proposalId = 1], "ok")
    /\ proposals[1].proposer = Deployer
    /\ proposals[1].endTime = proposals[1].startTime + MIN_VOTING_DURATION
    /\ memberCounter = 2
    /\ \E B \in Addr \ {Deployer} : isMember(B) /\ Voters(1) = {B} /\ Ballot(1, B) = 1
    /\ proposals[1].totalVoters = 1
    /\ <<proposals[1].encryptedYesVotes, Deployer>> \in acl
    /\ <<proposals[1].encryptedNoVotes, Deployer>> \in acl
    /\ YesPlain(1) = 1
    /\ NoPlain(1) = 0


----------------------------------------------------------------------------
(* C21: at most one decryption request is in flight.  While a request has  *)
(* not reached its terminal step the in-flight flag is set, no step starts *)
(* a request, and a call of decryptVotes returns at once: it leaves the    *)
(* chain, the wallet, the hook and both requests as they are, so it sends  *)
(* no authorization, asks for no signature and calls no userDecrypt.       *)
C21_OneDecryptionInFlight ==
    [][decryptRun.pc # "idle" =>
          /\ hook.isDecrypting
          /\ decryptRun'.pc = "grantDecryptionAccess" => decryptRun' = decryptRun
          /\ sessionCall'.op = "decryptVotes" =>
                /\ sessionCall'.result = "ignored"
                /\ UNCHANGED <<contractVars, now, txCount, lastCall,
                               wallet, hook, decryptRun, voteRun>>]_vars

(* decryptVotes was called, and ignored, while a request awaits userDecrypt. *)
C21_Witness ==
    /\ sessionCall = SessionCall("decryptVotes", "ignored")
    /\ decryptRun.pc = "userDecrypt"
    /\ hook.isDecrypting

(* C22: at most one vote request is in flight.  While a request has not    *)
(* finished the in-flight flag is set, no step starts a request, and a     *)
(* call of castVote returns at once: it leaves the chain, the wallet, the  *)
(* hook and both requests as they are, so no second encryption and no      *)
(* second castVote transaction is started.                                 *)
C22_OneVoteInFlight ==
    [][voteRun.pc # "idle" =>
          /\ hook.isVoting
          /\ voteRun'.pc = "setTimeout" => voteRun' = voteRun
          /\ sessionCall'.op = "castVote" =>
                /\ sessionCall'.result = "ignored"
                /\ UNCHANGED <<contractVars, now, txCount, lastCall,
                               wallet, hook, decryptRun, voteRun>>]_vars

(* castVote was called with a ballot it accepts, and ignored, while the    *)
(* transaction of an earlier request waits for its receipt.                *)
C22_Witness ==
    /\ sessionCall = SessionCall("castVote", "ignored")
    /\ voteRun.pc = "tx.wait"
    /\ hook.isVoting


(* The context of a request has changed since the request started. *)
ContextChanged(run) ==
    \/ wallet.account # run.thisEthersSigner.account
    \/ wallet.chainId # run.thisChainId
    \/ wallet.id # run.thisEthersSigner.id
    \/ encryptedDAOAddress # run.thisDAOAddress

(* C23: a decryption request whose account, chain or contract address has  *)
(* changed since it started never writes the clear tally: every step the   *)
(* request takes from then on, the return of userDecrypt with the          *)
(* plaintexts included, leaves clearYesVotes and clearNoVotes as they are. *)
C23_StaleNeverWritesTally ==
    [][(/\ decryptRun.pc # "idle"
        /\ ContextChanged(decryptRun)
        /\ decryptRun' # decryptRun)
       => /\ hook'.clearYesVotes = hook.clearYesVotes
          /\ hook'.clearNoVotes = hook.clearNoVotes]_vars

(* userDecrypt has returned the plaintexts to a request that started under *)
(* another account, and the request has ended without writing them.        *)
C23_Witness ==
    /\ sessionCall = SessionCall("userDecrypt", "stale")
    /\ wallet.account # Deployer
    /\ wallet.chainId = HardhatChainId
    /\ hook.clearYesVotes = NoClearValue
    /\ hook.yesVotesHandle # Undefined


(* The number of voters the list of the hook shows for a proposal. *)
ListedVoters(h, proposalId) ==
    IF proposalId \in 1 .. Len(h.proposals) THEN h.proposals[proposalId][7] ELSE 0

(* The step that ends a vote request after its transaction was confirmed   *)
(* and its context found unchanged.                                        *)
VoteCompletes == voteRun.pc = "loadVoteHandles" /\ voteRun'.pc = "idle"

(* C24: when a vote request completes and is not stale, the clear tally is *)
(* undefined, the proposal list has been read again (it counts the vote),  *)
(* and the loaded handles are the handles the voted proposal has after the *)
(* vote.                                                                   *)
C24_PostVoteState ==
    [][(VoteCompletes /\ ~isStale(voteRun)) =>
          /\ hook'.clearYesVotes = NoClearValue
          /\ hook'.clearNoVotes = NoClearValue
          /\ ListedVoters(hook', voteRun.proposalId) >= 1
          /\ hook'.selectedProposalId = voteRun.proposalId
          /\ hook'.yesVotesHandle = getEncryptedVotes(voteRun.proposalId)[1]
          /\ hook'.noVotesHandle = getEncryptedVotes(voteRun.proposalId)[2]]_vars


(* The messages a request can end with. *)
DecryptOutcomes ==
    {"Results: ", "Ignore FHEVM decryption",
     "Unable to build FHEVM decryption signature", "Decryption failed: "}

VoteOutcomes ==
    {"Vote submitted. Please decrypt results again.", "Ignore vote", "Vote failed: "}

(* C25: if every awaited call settles, a decryption request in flight      *)
(* leads to a state where no decryption request is in flight and           *)
(* isDecrypting is false, and a vote request in flight to one where no     *)
(* vote request is in flight and isVoting is false; the step that ends a   *)
(* request leaves the message of a resolved, stale or failed outcome.      *)
C25_RequestsTerminate ==
    /\ (decryptRun.pc # "idle") ~> (decryptRun.pc = "idle" /\ ~hook.isDecrypting)
    /\ (voteRun.pc # "idle") ~> (voteRun.pc = "idle" /\ ~hook.isVoting)
    /\ [][/\ (decryptRun.pc # "idle" /\ decryptRun'.pc = "idle") =>
                (hook'.message \in DecryptOutcomes /\ ~hook'.isDecrypting)
          /\ (voteRun.pc # "idle" /\ voteRun'.pc = "idle") =>
                (hook'.message \in VoteOutcomes /\ ~hook'.isVoting)]_vars

(* A request has failed on its signature and is no longer in flight. *)
C25_Witness ==
    /\ hook.message = "Unable to build FHEVM decryption signature"
    /\ decryptRun.pc = "idle"
    /\ ~hook.isDecrypting


(* C26: a vote request that is stale when the encryption of the ballot     *)
(* returns submits no castVote transaction; and a step of a vote request   *)
(* whose transaction is mined and whose context has changed refreshes no   *)
(* proposal list, loads no handles and leaves the clear tally as it is.    *)
C26_StaleVoteStops ==
    [][/\ (voteRun.pc = "encrypt" /\ ContextChanged(voteRun))
             => voteRun'.pc # "castVote"
       /\ (voteRun.mined /\ ContextChanged(voteRun) /\ voteRun' # voteRun)
             => /\ hook'.proposals = hook.proposals
                /\ hook'.selectedProposalId = hook.selectedProposalId
                /\ hook'.yesVotesHandle = hook.yesVotesHandle
                /\ hook'.noVotesHandle = hook.noVotesHandle
                /\ hook'.clearYesVotes = hook.clearYesVotes
                /\ hook'.clearNoVotes = hook.clearNoVotes]_vars

(* C27: a step of a decryption or vote request whose context has changed   *)
(* ends the request: it awaits no further call (transaction, signature     *)
(* request, encryption, userDecrypt, read) and writes nothing of the hook  *)
(* but the message and the in-flight flag.                                 *)
C27_StaleRequestEnds ==
    [][/\ (/\ decryptRun.pc # "idle"
           /\ ContextChanged(decryptRun)
           /\ decryptRun'.pc # decryptRun.pc)
             => /\ decryptRun'.pc = "idle"
                /\ hook' = [hook EXCEPT !.message = hook'.message,
                                        !.isDecrypting = FALSE]
       /\ (/\ voteRun.pc # "idle"
           /\ ContextChanged(voteRun)
           /\ voteRun'.pc # voteRun.pc)
             => /\ voteRun'.pc = "idle"
                /\ hook' = [hook EXCEPT !.message = hook'.message,
                                        !.isVoting = FALSE]]_vars


(* C28: the authorization step never ends a decryption request.  When the  *)
(* submission or the confirmation of grantDecryptionAccess settles,        *)
(* whether it succeeded or threw, the request is still in flight, at the   *)
(* confirmation or at the signature request, and the clear tally is        *)
(* untouched; and a request that ends at the signature request does so     *)
(* because it is stale or because the signature could not be built, so a   *)
(* request that is not stale and has its signature goes on to userDecrypt. *)
C28_AuthorizationNotFatal ==
    [][/\ (/\ decryptRun.pc \in {"grantDecryptionAccess", "authTx.wait"}
           /\ decryptRun'.pc # decryptRun.pc)
             => /\ decryptRun'.pc \in {"authTx.wait", "loadOrSign"}
                /\ hook'.isDecrypting
                /\ hook'.clearYesVotes = hook.clearYesVotes
                /\ hook'.clearNoVotes = hook.clearNoVotes
       /\ (decryptRun.pc = "loadOrSign" /\ decryptRun'.pc # decryptRun.pc)
             => \/ decryptRun'.pc = "userDecrypt"
                \/ /\ decryptRun'.pc = "idle"
                   /\ \/ ContextChanged(decryptRun)
                      \/ sessionCall'.result \in {"null", "throws"}]_vars

(* A request has ended Resolved although no grantDecryptionAccess was ever *)
(* mined: the two transactions of the chain are the creation of the        *)
(* proposal and the vote that allowed the voter on the counters.           *)
C28_Witness ==
    /\ sessionCall = SessionCall("userDecrypt", "resolved")
    /\ txCount = 2
    /\ lastCall.op = "castVote"
    /\ hook.clearYesVotes.handle = hook.yesVotesHandle
    /\ hook.clearYesVotes.clear = 1

(* C29: a decryption request that fails, because the signature cannot be   *)
(* built or because loadOrSign or userDecrypt throws, ends at that step    *)
(* with a failure message and with the flag cleared, so userDecrypt is not *)
(* called after a signature failure; and no step of a request but its      *)
(* resolution writes the clear tally, so the tally is what it was before.  *)
C29_FailureLeavesTally ==
    [][/\ (\/ /\ sessionCall'.op = "loadOrSign"
              /\ sessionCall'.result \in {"null", "throws"}
           \/ sessionCall' = SessionCall("userDecrypt", "failed"))
             => /\ decryptRun.pc = sessionCall'.op
                /\ decryptRun'.pc = "idle"
                /\ ~hook'.isDecrypting
                /\ hook'.message \in {"Unable to build FHEVM decryption signature",
                                      "Decryption failed: "}
       /\ (/\ decryptRun' # decryptRun
           /\ sessionCall' # SessionCall("userDecrypt", "resolved"))
             => /\ hook'.clearYesVotes = hook.clearYesVotes
                /\ hook'.clearNoVotes = hook.clearNoVotes]_vars

(* userDecrypt has thrown and the tally an earlier request wrote is still  *)
(* there.                                                                  *)
C29_Witness ==
    /\ sessionCall = SessionCall("userDecrypt", "failed")
    /\ hook.clearYesVotes # NoClearValue
    /\ hook.message = "Decryption failed: "

(* C30: when the submission or the confirmation of the castVote            *)
(* transaction throws, the request ends with the message "Vote failed: "   *)
(* and the flag cleared, and nothing else of the hook changes: not the     *)
(* proposal list, not the loaded handles, not the clear tally.             *)
C30_FailedVoteLeavesState ==
    [][(/\ sessionCall'.op \in {"contract.castVote", "tx.wait"}
        /\ sessionCall'.result = "failed")
          => /\ voteRun.pc \in {"castVote", "tx.wait"}
             /\ voteRun'.pc = "idle"
             /\ hook' = [hook EXCEPT !.message = "Vote failed: ", !.isVoting = FALSE]]_vars

(* The submission of a vote has thrown and the tally decrypted before it   *)
(* is still there.                                                         *)
C30_Witness ==
    /\ sessionCall = SessionCall("contract.castVote", "failed")
    /\ hook.clearYesVotes # NoClearValue
    /\ hook.clearYesVotes.handle = hook.yesVotesHandle

----------------------------------------------------------------------------
(* C34: in every reachable state memberCounter, which getMemberCount       *)
(* returns, is the number of addresses a with isMember(a), the deployer    *)
(* being the single member after the deployment.                           *)
C34_MemberCounterCounts ==
    /\ getMemberCount = Cardinality({a \in Addr : isMember(a)})
    /\ isMember(Deployer)
    /\ (txCount = 0 => {a \in Addr : isMember(a)} = {Deployer})

(* One member joined and another was added, and a third attempt was        *)
(* rejected.                                                               *)
C34_Witness ==
    /\ getMemberCount = 3
    /\ \A a \in Addr : isMember(a)
    /\ lastCall.op \in {"joinDAO", "addMember"}
    /\ lastCall.status = "Already a member"

----------------------------------------------------------------------------
(* The vote receipts of a proposal: the addresses checkHasVoted answers    *)
(* true for.                                                               *)
Receipts(proposalId) == {v \in Addr : checkHasVoted(proposalId, v)}

(* C35: in every reachable state, for every proposal p, totalVoters(p) is  *)
(* the number of addresses v with hasVoted[p][v], every such v is a        *)
(* member, and a rejected castVote changes neither totalVoters nor a vote  *)
(* receipt.                                                                *)
C35_TotalVotersCounts ==
    /\ [](\A p \in ProposalIds :
            /\ proposals[p].totalVoters = Cardinality(Receipts(p))
            /\ \A v \in Receipts(p) : isMember(v))
    /\ [][(CallStep("castVote") /\ lastCall'.status # "ok") =>
             /\ hasVoted' = hasVoted
             /\ \A p \in ProposalIds :
                   proposals'[p].totalVoters = proposals[p].totalVoters]_vars

(* Two members have voted on a proposal, and a second vote of one of them  *)
(* was rejected.                                                           *)
C35_Witness ==
    /\ lastCall.op = "castVote"
    /\ lastCall.status = "Already voted"
    /\ lastCall.args.proposalId \in ProposalIds
    /\ proposals[lastCall.args.proposalId].totalVoters = 2
    /\ Cardinality(Receipts(lastCall.args.proposalId)) = 2

----------------------------------------------------------------------------
(* The events a transaction emits: the emit statements of the function it  *)
(* called, when it did not revert.                                         *)
Emitted(call) ==
    IF call.status # "ok" THEN {}
    ELSE IF call.op \in {"joinDAO", "addMember"} THEN {"MemberAdded"}
    ELSE IF call.op = "createProposal" THEN {"ProposalCreated"}
    ELSE IF call.op = "castVote" THEN {"VoteCast"}
    ELSE {}

(* C36: in every reachable state every proposal has executed = false: no   *)
(* castVote is rejected as already executed, and no transaction emits      *)
(* ProposalExecuted or VoteResultsDecrypted.                               *)
C36_NeverExecuted ==
    /\ \A p \in ProposalIds : ~proposals[p].executed
    /\ lastCall.status # "Proposal already executed"
    /\ Emitted(lastCall) \cap {"ProposalExecuted", "VoteResultsDecrypted"} = {}

(* A proposal was voted on, a member was granted the decryption rights on  *)
(* its counters, and a later vote on it was accepted.                      *)
C36_Witness ==
    /\ lastCall.op = "castVote"
    /\ lastCall.status = "ok"
    /\ proposals[lastCall.args.proposalId].totalVoters = 2
    /\ \E a \in Addr \ Receipts(lastCall.args.proposalId) :
          <<proposals[lastCall.args.proposalId].encryptedYesVotes, a>> \notin acl
             /\ \E h \in CounterHistory(proposals[lastCall.args.proposalId].encryptedYesVotes) :
                   <<h, a>> \in acl

----------------------------------------------------------------------------
(* The chain has an entry with a usable address in the address map. *)
HasDeployment(chainId) ==
    /\ chainId \in DOMAIN addresses
    /\ "address" \in DOMAIN addresses[chainId]
    /\ addresses[chainId].address # ZeroAddress

(* C39: the deployment lookup is total and tri-state for every chainId: it *)
(* never throws, and isDeployed is undefined when the chainId is           *)
(* undefined, false when the chainId is known and the address map has no   *)
(* entry for it or an entry with a missing or zero address, and true       *)
(* otherwise.                                                              *)
C39_LookupTotal ==
    sessionCall.op = "isDeployed" =>
       /\ sessionCall.result # "throws"
       /\ sessionCall.result = IF wallet.chainId = NoChainId THEN "undefined"
                               ELSE IF ~HasDeployment(wallet.chainId) THEN "false"
                               ELSE "true"

----------------------------------------------------------------------------
(* The transactions of the given functions the session has sent and whose  *)
(* confirmation it still awaits.                                           *)
InFlight(ops) == {i \in DOMAIN writeRuns : writeRuns[i].op \in ops /\ writeRuns[i].pc = "tx.wait"}

(* C37: within one session at most one createProposal transaction is in   *)
(* flight at any time, and at most one joinDAO / addMember transaction:    *)
(* a call made while an earlier one has not settled returns without        *)
(* submitting a transaction.                                               *)
C37_OneWriteInFlight ==
    /\ Cardinality(InFlight({"createProposal"})) <= 1
    /\ Cardinality(InFlight({"joinDAO", "addMember"})) <= 1

----------------------------------------------------------------------------
(* C31: the client never submits a ballot outside {0,1}.  A call of        *)
(* castVote with another voteValue returns without encrypting or sending:  *)
(* it starts no request and changes neither the hook nor the chain.  A     *)
(* request that vote(proposalId, voteYes) starts carries 1 for true and 0  *)
(* for false, and the input the request encrypts and the contract receives *)
(* is the value the request carries.                                       *)
C31_BallotsInRange ==
    /\ [](voteRun.pc # "idle" => voteRun.voteValue \in {0, 1})
    /\ [][\A proposalId \in ProposalIds, voteValue \in BallotValues \ {0, 1} :
             castVote(proposalId, voteValue) =>
                UNCHANGED <<hook, voteRun, contractVars, txCount, lastCall>>]_vars
    /\ [][\A proposalId \in ProposalIds, voteYes \in BOOLEAN :
             (vote(proposalId, voteYes) /\ voteRun.pc = "idle" /\ voteRun'.pc # "idle") =>
                /\ voteYes => voteRun'.voteValue = 1
                /\ ~voteYes => voteRun'.voteValue = 0]_vars
    /\ [][(CallStep("castVote") /\ voteRun.pc = "tx.wait") =>
             /\ lastCall'.args.v = voteRun.voteValue
             /\ inputs'[lastCall'.args.e] = <<lastCall'.sender, voteRun.voteValue>>]_vars

(* A no of the session has been counted, and a later castVote with the     *)
(* value 2, made while no request was in flight, was ignored.              *)
C31_Witness ==
    /\ sessionCall = SessionCall("castVote", "ignored")
    /\ ~hook.isVoting
    /\ \E p \in ProposalIds :
          /\ hasVoted[p][wallet.account]
          /\ Ballot(p, wallet.account) = 0
          /\ NoPlain(p) = 1

----------------------------------------------------------------------------
(* C38: decryptVotes is a no-op when the current handles are already       *)
(* decrypted.  A call made while yesVotesHandle is the handle of           *)
(* clearYesVotes and noVotesHandle the handle of clearNoVotes starts no    *)
(* request (no authorization transaction, no signature request, no         *)
(* userDecrypt) and changes no state of the session or of the chain.       *)
C38_DecryptedIsNoOp ==
    [][(/\ DecryptVotes
        /\ hook.yesVotesHandle = hook.clearYesVotes.handle
        /\ hook.noVotesHandle = hook.clearNoVotes.handle) =>
          UNCHANGED <<hook, decryptRun, voteRun, wallet, contractVars, txCount,
                      lastCall>>]_vars

(* The tally of the loaded handles is shown, no request is in flight, and  *)
(* decryptVotes was called again.                                          *)
C38_Witness ==
    /\ sessionCall = SessionCall("decryptVotes", "already decrypted")
    /\ hook.yesVotesHandle # Undefined
    /\ hook.clearYesVotes = [handle |-> hook.yesVotesHandle, clear |-> Decrypt(hook.yesVotesHandle)]
    /\ hook.clearNoVotes = [handle |-> hook.noVotesHandle, clear |-> Decrypt(hook.noVotesHandle)]
    /\ decryptRun.pc = "idle"

----------------------------------------------------------------------------
(* C32: in every reachable state of the session, whenever a clear tally is *)
(* held (clearYesVotes and clearNoVotes defined) its handles are the       *)
(* loaded yesVotesHandle and noVotesHandle, so the tally shown under the   *)
(* selected proposal is never the plaintext of other handles.              *)
C32_TallyOfLoadedHandles ==
    (hook.clearYesVotes # NoClearValue /\ hook.clearNoVotes # NoClearValue) =>
       /\ hook.clearYesVotes.handle = hook.yesVotesHandle
       /\ hook.clearNoVotes.handle = hook.noVotesHandle

----------------------------------------------------------------------------
(* The grantDecryptionAccess transaction of the request in flight is       *)
(* confirmed.                                                              *)
GrantConfirmed ==
    /\ decryptRun.pc = "authTx.wait"
    /\ CallStep("grantDecryptionAccess")
    /\ lastCall'.status = "ok"

(* C33: in every decryption request, once its grantDecryptionAccess        *)
(* transaction is confirmed the requester holds the on-chain decryption    *)
(* rights on the handles the request passes to userDecrypt, also when      *)
(* another member's vote on the proposal was confirmed between the         *)
(* session's loadVoteHandles and the grant.                                *)
C33_GrantCoversRequest ==
    [][GrantConfirmed =>
          /\ <<decryptRun.thisYesHandle, decryptRun.thisEthersSigner.account>> \in acl'
          /\ <<decryptRun.thisNoHandle, decryptRun.thisEthersSigner.account>> \in acl']_vars

====
